---- MODULE Spec2Model ----
(***************************************************************************)
(* Debug eligibility of the Arduino IDE: the decision function             *)
(* isDebugEnabled (browser/contributions/debug.ts) and the Debug           *)
(* contribution that keeps disabledMessage up to date with it.             *)
(*                                                                         *)
(* Optional values (T | undefined) are sequences of length at most one:    *)
(* <<>> is undefined and <<v>> is the value v.                             *)
(***************************************************************************)
EXTENDS Naturals, Sequences, FiniteSets, TLC

VARIABLES
  call,             \* the isDebugEnabled invocation of the direct caller
  currentSketch,    \* sketchServiceClient.tryGetCurrentSketch()
  selectedBoard,    \* boardsServiceProvider.boardsConfig.selectedBoard
  disabledMessage,  \* Debug._disabledMessages
  tooltip,          \* Debug.debugToolbarItem.tooltip
  lifecycle,        \* "constructed", "started" (onStart ran) or "ready" (onReady ran)
  refreshes,        \* the refreshState invocations that have not completed
  refreshCompleted, \* history: some refreshState invocation has completed
  settled,          \* history: how the isDebugEnabled of the refreshState that
                    \* completed last has settled
  verified,         \* the boards service finds the sketch compiled for debugging
  storage,          \* storageService: the value stored under the key of each fqbn
  installed,        \* the fqbns the boards service has the details of
  tasks,            \* the operations of the data store in flight
  fired,            \* the changes of the event onDidChangeEmitter fired in the last step
  returned,         \* the operation of the data store that ended in the last step
  selectedBoardData, \* BoardsDataStore._selectedBoardData
  starts            \* the startDebug invocation of the Start Debugging command

storeVars == <<storage, installed, tasks, returned, verified, selectedBoardData>>
serviceVars == <<storeVars, fired>>
ideVars == <<call, starts, currentSketch, selectedBoard, disabledMessage, tooltip,
             lifecycle, refreshes, refreshCompleted, settled>>
vars == <<ideVars, serviceVars>>
debugVars == <<starts, currentSketch, selectedBoard, disabledMessage, tooltip,
               lifecycle, refreshes, refreshCompleted, settled, serviceVars>>

----------------------------------------------------------------------------
(* Bounds *)

\* refreshState invocations that may be in flight at the same time
MaxRefreshes == 2
\* operations of the data store that may be in flight at the same time
MaxTasks == 1
\* operations of the data store that race with each other
MaxRacing == 2

----------------------------------------------------------------------------
(* Values *)

None == <<>>
Some(v) == <<v>>

\* JavaScript truthiness of an optional string: undefined and '' are falsy
Falsy(s) == s = None \/ s = Some("")

\* CurrentSketch | undefined
SketchUndefined == [kind |-> "undefined"]
SketchInvalid == [kind |-> "invalid"]
ValidSketches ==
  { [kind |-> "sketch", name |-> "My_Sketch", uri |-> "file:///path/to/mySketch/"],
    [kind |-> "sketch", name |-> "Other", uri |-> "file:///path/to/other/"] }
Sketches == {SketchUndefined, SketchInvalid} \cup ValidSketches

CurrentSketch_isValid(sketch) == sketch.kind = "sketch"

\* BoardIdentifier | undefined; the fqbn of a board is optional
BoardNames == {"ABC", "XYZ"}
Fqbns == {"a:b:c", "x:y:z"}
BoardIdentifiers ==
  [name : BoardNames, fqbn : {None, Some("")} \cup {Some(f) : f \in Fqbns}]
Boards == {None} \cup {Some(b) : b \in BoardIdentifiers}

\* Programmer
p1 == [id |-> "p1", name |-> "P1", platform |-> "The platform"]
p2 == [id |-> "p2", name |-> "P2", platform |-> "The platform"]

\* BoardsDataStore.Data
Data_EMPTY ==
  [configOptions |-> <<>>, programmers |-> <<>>,
   selectedProgrammer |-> None, defaultProgrammerId |-> None]
DataValues ==
  { Data_EMPTY,
    [configOptions |-> <<>>, programmers |-> <<p1, p2>>,
     selectedProgrammer |-> None, defaultProgrammerId |-> Some("p1")],
    [configOptions |-> <<>>, programmers |-> <<p1, p2>>,
     selectedProgrammer |-> Some(p1), defaultProgrammerId |-> Some("p1")],
    [configOptions |-> <<>>, programmers |-> <<p1, p2>>,
     selectedProgrammer |-> Some(p2), defaultProgrammerId |-> Some("p1")] }

\* BoardDetails
BoardDetailsOf(fqbn) ==
  [fqbn |-> fqbn, configOptions |-> <<>>, programmers |-> <<p1, p2>>,
   defaultProgrammerId |-> Some("p1")]

\* Error objects: where the object was created, and its message
Error(origin, message) == [origin |-> origin, message |-> message]
NewError(message) == Error("isDebugEnabled", message)

\* what the boards service rejects getBoardDetails with
GetDetailsErrors ==
  { Error("getDetails", "loading board data: platform is not installed"),
    Error("getDetails", "unexpected error") }
\* what checkDebugEnabled throws
CheckErrors ==
  { Error("checkDebugEnabled", "sketch is not verifier"),
    Error("checkDebugEnabled", "unhandled error"),
    Error("checkDebugEnabled", "") }

\* outcome of a callback: a value or a rejection
Value(v) == [kind |-> "value", value |-> v]
Rejection(e) == [kind |-> "error", error |-> e]

GetDetailsOutcomes(fqbn) ==
  {Value(None), Value(Some(BoardDetailsOf(fqbn)))}
    \cup {Rejection(e) : e \in GetDetailsErrors}
GetDataOutcomes == {Value(d) : d \in DataValues}
AppendConfigOutcomes(fqbn) ==
  {Value(None), Value(Some("")), Value(Some(fqbn)), Value(Some(fqbn \o ":opt=v"))}
CheckOutcomes == {Value(None)} \cup {Rejection(e) : e \in CheckErrors}

----------------------------------------------------------------------------
(* Messages *)

noSketchOpened == "No sketch opened"
noBoardSelected == "No board selected"
sketchIsNotCompiled(sketchName) ==
  "Sketch '" \o sketchName \o "' must be verified before starting a debug session"
noPlatformInstalledFor(boardName) ==
  "Platform is not installed for '" \o boardName \o "'"
debuggingNotSupported(boardName) ==
  "Debugging is not supported by '" \o boardName \o "'"
noProgrammerSelectedFor(boardName) ==
  "No programmer selected for '" \o boardName \o "'"
failedToAppend(fqbn) ==
  "Failed to append boards config to the FQBN. Original FQBN was: " \o fqbn

----------------------------------------------------------------------------
(* isDebugEnabled: one invocation of the async function.                   *)
(* pc is the await the invocation is suspended at; fetched holds what the  *)
(* three promises given to Promise.all have settled with so far, checked   *)
(* what checkDebugEnabled settled with (the catch parameter err when it is *)
(* a rejection) and sketchNotVerified the local constant of that name;     *)
(* calls records every invocation of the five callbacks with its           *)
(* arguments.                                                              *)

NoCalls ==
  [getDetails |-> <<>>, getData |-> <<>>, appendConfigToFqbn |-> <<>>,
   checkDebugEnabled |-> <<>>, isSketchNotVerifiedError |-> <<>>]
NotFetched == [getDetails |-> None, getData |-> None, appendConfigToFqbn |-> None]

Invocation(sketch, board) ==
  [pc |-> "entered", sketch |-> sketch, board |-> board,
   fetched |-> NotFetched, checked |-> None, sketchNotVerified |-> None,
   state |-> "pending", reason |-> None, calls |-> NoCalls]
NoInvocation == [Invocation(SketchUndefined, None) EXCEPT !.pc = "idle"]

Reject(f, e) == [f EXCEPT !.pc = "done", !.state = "rejected", !.reason = Some(e)]
Fulfil(f) == [f EXCEPT !.pc = "done", !.state = "fulfilled"]

\* Variants of isDebugEnabled_enter with a slip in it:
\* the board is checked before the sketch
isDebugEnabled_enter_boardFirst(sketch, board) ==
  LET f == Invocation(sketch, board) IN
  IF board = None THEN Reject(f, NewError(noBoardSelected))
  ELSE IF ~CurrentSketch_isValid(sketch) THEN Reject(f, NewError(noSketchOpened))
  ELSE IF Falsy(board[1].fqbn)
       THEN Reject(f, NewError(noPlatformInstalledFor(board[1].name)))
  ELSE LET fqbn == board[1].fqbn[1] IN
       [f EXCEPT !.pc = "awaitAll",
                 !.calls.getDetails = Append(@, fqbn),
                 !.calls.getData = Append(@, fqbn),
                 !.calls.appendConfigToFqbn = Append(@, fqbn)]
\* a missing board is reported with the message of a missing sketch
isDebugEnabled_enter_boardMessage(sketch, board) ==
  LET f == Invocation(sketch, board) IN
  IF ~CurrentSketch_isValid(sketch) THEN Reject(f, NewError(noSketchOpened))
  ELSE IF board = None THEN Reject(f, NewError(noSketchOpened))
  ELSE IF Falsy(board[1].fqbn)
       THEN Reject(f, NewError(noPlatformInstalledFor(board[1].name)))
  ELSE LET fqbn == board[1].fqbn[1] IN
       [f EXCEPT !.pc = "awaitAll",
                 !.calls.getDetails = Append(@, fqbn),
                 !.calls.getData = Append(@, fqbn),
                 !.calls.appendConfigToFqbn = Append(@, fqbn)]
\* the board details are requested before the fqbn is checked
isDebugEnabled_enter_fetchFirst(sketch, board) ==
  LET f == Invocation(sketch, board) IN
  IF ~CurrentSketch_isValid(sketch) THEN Reject(f, NewError(noSketchOpened))
  ELSE IF board = None THEN Reject(f, NewError(noBoardSelected))
  ELSE IF Falsy(board[1].fqbn)
       THEN Reject([f EXCEPT !.calls.getDetails = Append(@, "")],
                   NewError(noPlatformInstalledFor(board[1].name)))
  ELSE LET fqbn == board[1].fqbn[1] IN
       [f EXCEPT !.pc = "awaitAll",
                 !.calls.getDetails = Append(@, fqbn),
                 !.calls.getData = Append(@, fqbn),
                 !.calls.appendConfigToFqbn = Append(@, fqbn)]

\* the synchronous part of the function, up to the await of Promise.all
isDebugEnabled_enter(sketch, board) ==
  LET f == Invocation(sketch, board) IN
  IF ~CurrentSketch_isValid(sketch) THEN Reject(f, NewError(noSketchOpened))
  ELSE IF board = None THEN Reject(f, NewError(noBoardSelected))
  ELSE IF Falsy(board[1].fqbn)
       THEN Reject(f, NewError(noPlatformInstalledFor(board[1].name)))
  ELSE LET fqbn == board[1].fqbn[1] IN
       [f EXCEPT !.pc = "awaitAll",
                 !.calls.getDetails = Append(@, fqbn),
                 !.calls.getData = Append(@, fqbn),
                 !.calls.appendConfigToFqbn = Append(@, fqbn)]

\* one of the three promises given to Promise.all settles
isDebugEnabled_settle(f, callback, outcome) ==
  [f EXCEPT !.fetched[callback] = Some(outcome)]

FetchRejected(f) ==
  \E c \in DOMAIN f.fetched :
     f.fetched[c] # None /\ f.fetched[c][1].kind = "error"
FetchFulfilled(f) ==
  \A c \in DOMAIN f.fetched :
     f.fetched[c] # None /\ f.fetched[c][1].kind = "value"
\* Promise.all has settled: all three fulfilled, or one rejected
PromiseAllSettled(f) == FetchRejected(f) \/ FetchFulfilled(f)

\* Variants of isDebugEnabled_afterAll with a slip in it:
\* the board details are not checked
isDebugEnabled_afterAll_noDetailsCheck(f) ==
  IF FetchRejected(f)
  THEN LET c == CHOOSE c \in DOMAIN f.fetched :
                   f.fetched[c] # None /\ f.fetched[c][1].kind = "error"
       IN Reject(f, f.fetched[c][1].error)
  ELSE
  LET board == f.board[1]
      fqbn == board.fqbn[1]
      data == f.fetched.getData[1].value
      fqbnWithConfig == f.fetched.appendConfigToFqbn[1].value
  IN IF Falsy(fqbnWithConfig) THEN Reject(f, NewError(failedToAppend(fqbn)))
     ELSE IF data.selectedProgrammer = None
          THEN Reject(f, NewError(noProgrammerSelectedFor(board.name)))
     ELSE LET params == [fqbn |-> fqbnWithConfig[1],
                         programmer |-> data.selectedProgrammer[1].id,
                         sketchUri |-> f.sketch.uri]
          IN [f EXCEPT !.pc = "awaitCheck",
                       !.calls.checkDebugEnabled = Append(@, params)]
\* a missing programmer is left to checkDebugEnabled to report
isDebugEnabled_afterAll_noProgrammerCheck(f) ==
  IF FetchRejected(f)
  THEN LET c == CHOOSE c \in DOMAIN f.fetched :
                   f.fetched[c] # None /\ f.fetched[c][1].kind = "error"
       IN Reject(f, f.fetched[c][1].error)
  ELSE
  LET board == f.board[1]
      fqbn == board.fqbn[1]
      details == f.fetched.getDetails[1].value
      data == f.fetched.getData[1].value
      fqbnWithConfig == f.fetched.appendConfigToFqbn[1].value
  IN IF details = None THEN Reject(f, NewError(noPlatformInstalledFor(board.name)))
     ELSE IF Falsy(fqbnWithConfig) THEN Reject(f, NewError(failedToAppend(fqbn)))
     ELSE LET params == [fqbn |-> fqbnWithConfig[1],
                         programmer |-> IF data.selectedProgrammer = None THEN ""
                                        ELSE data.selectedProgrammer[1].id,
                         sketchUri |-> f.sketch.uri]
          IN [f EXCEPT !.pc = "awaitCheck",
                       !.calls.checkDebugEnabled = Append(@, params)]
\* the selected programmer is checked before the board details
isDebugEnabled_afterAll_programmerFirst(f) ==
  IF FetchRejected(f)
  THEN LET c == CHOOSE c \in DOMAIN f.fetched :
                   f.fetched[c] # None /\ f.fetched[c][1].kind = "error"
       IN Reject(f, f.fetched[c][1].error)
  ELSE
  LET board == f.board[1]
      fqbn == board.fqbn[1]
      details == f.fetched.getDetails[1].value
      data == f.fetched.getData[1].value
      fqbnWithConfig == f.fetched.appendConfigToFqbn[1].value
  IN IF data.selectedProgrammer = None
     THEN Reject(f, NewError(noProgrammerSelectedFor(board.name)))
     ELSE IF details = None
          THEN Reject(f, NewError(noPlatformInstalledFor(board.name)))
     ELSE IF Falsy(fqbnWithConfig) THEN Reject(f, NewError(failedToAppend(fqbn)))
     ELSE LET params == [fqbn |-> fqbnWithConfig[1],
                         programmer |-> data.selectedProgrammer[1].id,
                         sketchUri |-> f.sketch.uri]
          IN [f EXCEPT !.pc = "awaitCheck",
                       !.calls.checkDebugEnabled = Append(@, params)]
\* the selected programmer check is inverted
isDebugEnabled_afterAll_invertedProgrammer(f) ==
  IF FetchRejected(f)
  THEN LET c == CHOOSE c \in DOMAIN f.fetched :
                   f.fetched[c] # None /\ f.fetched[c][1].kind = "error"
       IN Reject(f, f.fetched[c][1].error)
  ELSE
  LET board == f.board[1]
      fqbn == board.fqbn[1]
      details == f.fetched.getDetails[1].value
      data == f.fetched.getData[1].value
      fqbnWithConfig == f.fetched.appendConfigToFqbn[1].value
  IN IF details = None THEN Reject(f, NewError(noPlatformInstalledFor(board.name)))
     ELSE IF Falsy(fqbnWithConfig) THEN Reject(f, NewError(failedToAppend(fqbn)))
     ELSE IF data.selectedProgrammer # None
          THEN Reject(f, NewError(noProgrammerSelectedFor(board.name)))
     ELSE LET params == [fqbn |-> fqbnWithConfig[1],
                         programmer |-> "",
                         sketchUri |-> f.sketch.uri]
          IN [f EXCEPT !.pc = "awaitCheck",
                       !.calls.checkDebugEnabled = Append(@, params)]
\* checkDebugEnabled is given the fqbn of the board, without the config
isDebugEnabled_afterAll_plainFqbn(f) ==
  IF FetchRejected(f)
  THEN LET c == CHOOSE c \in DOMAIN f.fetched :
                   f.fetched[c] # None /\ f.fetched[c][1].kind = "error"
       IN Reject(f, f.fetched[c][1].error)
  ELSE
  LET board == f.board[1]
      fqbn == board.fqbn[1]
      details == f.fetched.getDetails[1].value
      data == f.fetched.getData[1].value
      fqbnWithConfig == f.fetched.appendConfigToFqbn[1].value
  IN IF details = None THEN Reject(f, NewError(noPlatformInstalledFor(board.name)))
     ELSE IF Falsy(fqbnWithConfig) THEN Reject(f, NewError(failedToAppend(fqbn)))
     ELSE IF data.selectedProgrammer = None
          THEN Reject(f, NewError(noProgrammerSelectedFor(board.name)))
     ELSE LET params == [fqbn |-> fqbn,
                         programmer |-> data.selectedProgrammer[1].id,
                         sketchUri |-> f.sketch.uri]
          IN [f EXCEPT !.pc = "awaitCheck",
                       !.calls.checkDebugEnabled = Append(@, params)]

\* the function resumes after the await of Promise.all
isDebugEnabled_afterAll(f) ==
  IF FetchRejected(f)
  THEN LET c == CHOOSE c \in DOMAIN f.fetched :
                   f.fetched[c] # None /\ f.fetched[c][1].kind = "error"
       IN Reject(f, f.fetched[c][1].error)
  ELSE
  LET board == f.board[1]
      fqbn == board.fqbn[1]
      details == f.fetched.getDetails[1].value
      data == f.fetched.getData[1].value
      fqbnWithConfig == f.fetched.appendConfigToFqbn[1].value
  IN IF details = None THEN Reject(f, NewError(noPlatformInstalledFor(board.name)))
     ELSE IF Falsy(fqbnWithConfig) THEN Reject(f, NewError(failedToAppend(fqbn)))
     ELSE IF data.selectedProgrammer = None
          THEN Reject(f, NewError(noProgrammerSelectedFor(board.name)))
     ELSE LET params == [fqbn |-> fqbnWithConfig[1],
                         programmer |-> data.selectedProgrammer[1].id,
                         sketchUri |-> f.sketch.uri]
          IN [f EXCEPT !.pc = "awaitCheck",
                       !.calls.checkDebugEnabled = Append(@, params)]

\* checkDebugEnabled settles and the function resumes
isDebugEnabled_afterCheck(f, outcome) ==
  IF outcome.kind = "value" THEN Fulfil([f EXCEPT !.checked = Some(outcome)])
  ELSE [f EXCEPT !.pc = "awaitVerify",
                 !.checked = Some(outcome),
                 !.calls.isSketchNotVerifiedError =
                    Append(@, [err |-> outcome.error, sketchRef |-> f.sketch])]

\* Variants of isDebugEnabled_afterVerify with a slip in it:
\* the caught error is thrown again when the sketch is not verified
isDebugEnabled_afterVerify_rethrow(f, sketchNotVerified) ==
  LET g == [f EXCEPT !.sketchNotVerified = Some(sketchNotVerified)] IN
  IF sketchNotVerified
  THEN Reject(g, f.checked[1].error)
  ELSE Reject(g, NewError(debuggingNotSupported(f.board[1].name)))
\* the message of the caught error is reported when the sketch is verified
isDebugEnabled_afterVerify_message(f, sketchNotVerified) ==
  LET g == [f EXCEPT !.sketchNotVerified = Some(sketchNotVerified)] IN
  IF sketchNotVerified
  THEN Reject(g, NewError(sketchIsNotCompiled(f.sketch.name)))
  ELSE Reject(g, NewError(f.checked[1].error.message))
\* every failure of checkDebugEnabled is reported as noSketchOpened
isDebugEnabled_afterVerify_noSketchOpened(f, sketchNotVerified) ==
  Reject([f EXCEPT !.sketchNotVerified = Some(sketchNotVerified)],
         NewError(noSketchOpened))

\* isSketchNotVerifiedError settles and the function resumes
isDebugEnabled_afterVerify(f, sketchNotVerified) ==
  LET g == [f EXCEPT !.sketchNotVerified = Some(sketchNotVerified)] IN
  IF sketchNotVerified
  THEN Reject(g, NewError(sketchIsNotCompiled(f.sketch.name)))
  ELSE Reject(g, NewError(debuggingNotSupported(f.board[1].name)))

Callbacks == {"getDetails", "getData", "appendConfigToFqbn"}
Outcomes(f, callback) ==
  LET fqbn == f.board[1].fqbn[1] IN
  CASE callback = "getDetails" -> GetDetailsOutcomes(fqbn)
    [] callback = "getData" -> GetDataOutcomes
    [] callback = "appendConfigToFqbn" -> AppendConfigOutcomes(fqbn)

----------------------------------------------------------------------------
(* A direct caller of isDebugEnabled, with callbacks that settle with any  *)
(* outcome, as in test/browser/debug.test.ts                               *)

Invoke ==
  /\ call.pc \in {"idle", "done"}
  /\ \E sketch \in Sketches, board \in Boards :
        call' = isDebugEnabled_enter(sketch, board)
  /\ UNCHANGED debugVars

FetchSettles ==
  /\ call.pc = "awaitAll"
  /\ \E c \in Callbacks :
        /\ call.fetched[c] = None
        /\ \E o \in Outcomes(call, c) : call' = isDebugEnabled_settle(call, c, o)
  /\ UNCHANGED debugVars

ResumeAfterAll ==
  /\ call.pc = "awaitAll"
  /\ PromiseAllSettled(call)
  /\ call' = isDebugEnabled_afterAll(call)
  /\ UNCHANGED debugVars

CheckDebugEnabledSettles ==
  /\ call.pc = "awaitCheck"
  /\ \E o \in CheckOutcomes : call' = isDebugEnabled_afterCheck(call, o)
  /\ UNCHANGED debugVars

IsSketchNotVerifiedErrorSettles ==
  /\ call.pc = "awaitVerify"
  /\ \E b \in BOOLEAN : call' = isDebugEnabled_afterVerify(call, b)
  /\ UNCHANGED debugVars

----------------------------------------------------------------------------
(* The Debug contribution                                                  *)

START_DEBUGGING_label == "Start Debugging"

\* the tooltip of the toolbar item for a disabled message
Debug_tooltip(message) ==
  IF Falsy(message) THEN START_DEBUGGING_label ELSE "Debug - " \o message[1]

\* isEnabled of a handler that is always enabled
Debug_isEnabled_always == TRUE
\* isEnabled of the Start Debugging command handler
Debug_isEnabled == Falsy(disabledMessage)

\* the sketches and boards the IDE has in this model
IdeSketches ==
  {SketchUndefined, SketchInvalid,
   [kind |-> "sketch", name |-> "My_Sketch", uri |-> "file:///path/to/mySketch/"]}
IdeBoards ==
  {None, Some([name |-> "ABC", fqbn |-> None]),
   Some([name |-> "ABC", fqbn |-> Some("a:b:c")]),
   Some([name |-> "XYZ", fqbn |-> Some("x:y:z")])}

\* what the boards service and the data store of the IDE settle the
\* callbacks of a refresh with
IdeOutcomes(f, callback) ==
  LET fqbn == f.board[1].fqbn[1] IN
  CASE callback = "getDetails" ->
         {Value(None), Value(Some(BoardDetailsOf(fqbn))),
          Rejection(Error("getDetails", "unexpected error"))}
    [] callback = "getData" ->
         {Value(Data_EMPTY),
          Value([configOptions |-> <<>>, programmers |-> <<p1, p2>>,
                 selectedProgrammer |-> Some(p1), defaultProgrammerId |-> Some("p1")])}
    [] callback = "appendConfigToFqbn" -> {Value(None), Value(Some(fqbn))}
IdeCheckOutcomes ==
  {Value(None), Rejection(Error("checkDebugEnabled", "unhandled error"))}

\* an invocation without the record of the callback invocations and without
\* the arguments and locals that are not read again
Live(f) ==
  IF f.pc = "done"
  THEN [NoInvocation EXCEPT !.pc = "done", !.state = f.state, !.reason = f.reason]
  ELSE [f EXCEPT !.fetched = NotFetched, !.checked = None,
                 !.sketchNotVerified = None, !.calls = NoCalls]

Idle(i) == refreshes[i].pc = "idle"
\* a refreshState whose isDebugEnabled threw before its first await resumes in
\* a microtask, before any other event is handled
Settling == \E i \in 1..MaxRefreshes : refreshes[i].pc = "done"
FreeSlot == CHOOSE i \in 1..MaxRefreshes : Idle(i) /\ \A j \in 1..(i - 1) : ~Idle(j)

\* refreshState up to its await: isDebugEnabled is entered with the current
\* sketch and the selected board
refreshState(sketch, board) ==
  /\ \E i \in 1..MaxRefreshes : Idle(i)
  /\ refreshes' = [refreshes EXCEPT ![FreeSlot] = Live(isDebugEnabled_enter(sketch, board))]

\* refreshState that leaves String(err) in disabledMessage
refreshState_message_string(f) ==
  IF f.state = "fulfilled" THEN None ELSE Some("Error: " \o f.reason[1].message)
\* what refreshState assigns to disabledMessage once isDebugEnabled settled
refreshState_message(f) ==
  IF f.state = "fulfilled" THEN None ELSE Some(f.reason[1].message)

OnStart ==
  /\ ~Settling
  /\ lifecycle = "constructed"
  /\ lifecycle' = "started"
  /\ fired' = None
  /\ UNCHANGED <<storeVars, call, starts, currentSketch, selectedBoard, disabledMessage, tooltip,
                 refreshes, refreshCompleted, settled>>

OnReady ==
  /\ ~Settling
  /\ lifecycle = "started"
  /\ lifecycle' = "ready"
  /\ refreshState(currentSketch, selectedBoard)
  /\ fired' = None
  /\ UNCHANGED <<storeVars, call, starts, currentSketch, selectedBoard, disabledMessage, tooltip,
                 refreshCompleted, settled>>

\* the selected board changes; the listener of onStart refreshes the state
BoardsConfigDidChange ==
  /\ ~Settling
  /\ \E board \in IdeBoards \ {selectedBoard} :
        /\ selectedBoard' = board
        /\ IF lifecycle = "constructed" THEN UNCHANGED refreshes
           ELSE refreshState(currentSketch, board)
  /\ fired' = None
  /\ UNCHANGED <<storeVars, call, starts, currentSketch, disabledMessage, tooltip, lifecycle,
                 refreshCompleted, settled>>

PlatformDidInstall ==
  /\ ~Settling
  /\ lifecycle # "constructed"
  /\ refreshState(currentSketch, selectedBoard)
  /\ fired' = None
  /\ UNCHANGED <<storeVars, call, starts, currentSketch, selectedBoard, disabledMessage, tooltip,
                 lifecycle, refreshCompleted, settled>>

PlatformDidUninstall ==
  /\ ~Settling
  /\ lifecycle # "constructed"
  /\ refreshState(currentSketch, selectedBoard)
  /\ fired' = None
  /\ UNCHANGED <<storeVars, call, starts, currentSketch, selectedBoard, disabledMessage, tooltip,
                 lifecycle, refreshCompleted, settled>>

\* the events of the data store: changes of one board, or of both
ChangeOf(fqbn) == [fqbn |-> fqbn, data |-> [Data_EMPTY EXCEPT !.programmers = <<p2>>]]
ChangeEvents ==
  {<<ChangeOf("a:b:c")>>, <<ChangeOf("x:y:z")>>, <<ChangeOf("x:y:z"), ChangeOf("a:b:c")>>}

\* the listener refreshes on every event
hasChangeOf_any(changes, selectedFqbn) == changes # <<>>
\* event.changes.find((change) => change.fqbn === selectedFqbn)
hasChangeOf(changes, selectedFqbn) ==
  \E k \in 1..Len(changes) : Some(changes[k].fqbn) = selectedFqbn

\* the data store fires an event with changes; the listener of onStart
\* refreshes the state when one of them is of the selected board
BoardsDataStoreDidChange ==
  /\ ~Settling
  /\ lifecycle # "constructed"
  /\ \E changes \in ChangeEvents :
        LET selectedFqbn ==
              IF selectedBoard = None THEN None ELSE selectedBoard[1].fqbn
        IN /\ fired' = Some(changes)
           /\ IF hasChangeOf(changes, selectedFqbn)
              THEN refreshState(currentSketch, selectedBoard)
              ELSE UNCHANGED refreshes
  /\ UNCHANGED <<storeVars, call, starts, currentSketch, selectedBoard, disabledMessage, tooltip,
                 lifecycle, refreshCompleted, settled>>

\* the command arduino.languageserver.notifyBuildDidComplete was executed
\* with a compile summary
BuildDidComplete ==
  /\ ~Settling
  /\ lifecycle # "constructed"
  /\ refreshState(currentSketch, selectedBoard)
  /\ fired' = None
  /\ UNCHANGED <<storeVars, call, starts, currentSketch, selectedBoard, disabledMessage, tooltip,
                 lifecycle, refreshCompleted, settled>>

\* the current sketch of the sketch service client changes
CurrentSketchDidChange ==
  /\ ~Settling
  /\ \E sketch \in IdeSketches \ {currentSketch} : currentSketch' = sketch
  /\ fired' = None
  /\ UNCHANGED <<storeVars, call, starts, selectedBoard, disabledMessage, tooltip, lifecycle,
                 refreshes, refreshCompleted, settled>>

\* refreshState resumes after its await of the settled invocation f: it
\* sets disabledMessage, and the listener of onStart sets the tooltip
refreshState_resume(i, f) ==
  /\ disabledMessage' = refreshState_message(f)
  /\ tooltip' = Debug_tooltip(disabledMessage')
  /\ refreshes' = [refreshes EXCEPT ![i] = NoInvocation]
  /\ refreshCompleted' = TRUE
  /\ settled' = Some([state |-> f.state, reason |-> f.reason])

\* refreshState suspended at the await of isDebugEnabled at f
refreshState_suspend(i, f) ==
  /\ refreshes' = [refreshes EXCEPT ![i] = Live(f)]
  /\ UNCHANGED <<disabledMessage, tooltip, refreshCompleted, settled>>

\* the three fetches of a refresh settle and its isDebugEnabled resumes; when
\* that settles isDebugEnabled, refreshState resumes too
RefreshFetched ==
  /\ ~Settling
  /\ \E i \in 1..MaxRefreshes :
        /\ refreshes[i].pc = "awaitAll"
        /\ \E details \in IdeOutcomes(refreshes[i], "getDetails"),
              data \in IdeOutcomes(refreshes[i], "getData"),
              fqbnWithConfig \in IdeOutcomes(refreshes[i], "appendConfigToFqbn") :
              LET f1 == isDebugEnabled_settle(refreshes[i], "getDetails", details)
                  f2 == isDebugEnabled_settle(f1, "getData", data)
                  f3 == isDebugEnabled_settle(f2, "appendConfigToFqbn", fqbnWithConfig)
                  f4 == isDebugEnabled_afterAll(f3)
              IN IF f4.pc = "done" THEN refreshState_resume(i, f4)
                 ELSE refreshState_suspend(i, f4)
  /\ fired' = None
  /\ UNCHANGED <<storeVars, call, starts, currentSketch, selectedBoard, lifecycle>>

\* checkDebugEnabled of a refresh settles; when it throws,
\* isSketchNotVerifiedError settles too; isDebugEnabled settles and
\* refreshState resumes
RefreshChecked ==
  /\ ~Settling
  /\ \E i \in 1..MaxRefreshes :
        /\ refreshes[i].pc = "awaitCheck"
        /\ \E o \in IdeCheckOutcomes, sketchNotVerified \in BOOLEAN :
              LET f1 == isDebugEnabled_afterCheck(refreshes[i], o)
                  f2 == IF f1.pc = "awaitVerify"
                        THEN isDebugEnabled_afterVerify(f1, sketchNotVerified)
                        ELSE f1
              IN refreshState_resume(i, f2)
  /\ fired' = None
  /\ UNCHANGED <<storeVars, call, starts, currentSketch, selectedBoard, lifecycle>>

\* refreshState resumes when isDebugEnabled threw before its first await
RefreshCompletes ==
  /\ \E i \in 1..MaxRefreshes :
        /\ refreshes[i].pc = "done"
        /\ refreshState_resume(i, refreshes[i])
  /\ fired' = None
  /\ UNCHANGED <<storeVars, call, starts, currentSketch, selectedBoard, lifecycle>>

----------------------------------------------------------------------------
(* The boards data store (browser/boards/boards-data-store.ts)             *)

\* ConfigOption values of the board a:b:c
cpu ==
  [option |-> "cpu",
   values |-> <<[value |-> "v1", selected |-> TRUE],
                [value |-> "v2", selected |-> FALSE]>>]
flash == [option |-> "flash", values |-> <<[value |-> "f1", selected |-> TRUE]>>]
\* a programmer no board has
p3 == [id |-> "p3", name |-> "P3", platform |-> "The platform"]

\* the BoardDetails the boards service has of a board
BoardDetailsData(fqbn) ==
  IF fqbn = "a:b:c"
  THEN [fqbn |-> fqbn, configOptions |-> <<cpu, flash>>, programmers |-> <<p1, p2>>,
        defaultProgrammerId |-> Some("p1")]
  ELSE [fqbn |-> fqbn, configOptions |-> <<>>, programmers |-> <<p2>>,
        defaultProgrammerId |-> None]

\* Array.find: the element of seq at the least of the indices in found, the
\* indices of the elements that satisfy the test
Find(seq, found) ==
  IF found = {} THEN None
  ELSE Some(seq[CHOOSE i \in found : \A j \in found : i <= j])

isProgrammer(arg) == DOMAIN arg = {"id", "name", "platform"}
Programmer_equals(left, right) ==
  left.id = right.id /\ left.name = right.name /\ left.platform = right.platform

\* a stored value that is not a BoardsDataStore.Data: its selectedProgrammer
\* is no Programmer
Corrupt == [Data_EMPTY EXCEPT !.selectedProgrammer = Some([id |-> "p1"])]

\* BoardsDataStore.Data.is, of a value read from the storage
Data_is(arg) ==
  /\ arg # None
  /\ \/ arg[1].selectedProgrammer = None
     \/ isProgrammer(arg[1].selectedProgrammer[1])

\* findDefaultProgrammer that falls back on the first programmer
findDefaultProgrammer_first(programmers, defaultProgrammerId) ==
  IF programmers = <<>> THEN None
  ELSE LET found == IF Falsy(defaultProgrammerId) THEN {}
                    ELSE {i \in 1..Len(programmers) :
                            programmers[i].id = defaultProgrammerId[1]}
       IN IF found = {} THEN Some(programmers[1]) ELSE Find(programmers, found)
findDefaultProgrammer(programmers, defaultProgrammerId) ==
  IF Falsy(defaultProgrammerId) THEN None
  ELSE Find(programmers, {i \in 1..Len(programmers) :
                            programmers[i].id = defaultProgrammerId[1]})

createDataStoreEntry(details) ==
  [configOptions |-> details.configOptions,
   programmers |-> details.programmers,
   selectedProgrammer |->
     findDefaultProgrammer(details.programmers, details.defaultProgrammerId),
   defaultProgrammerId |->
     IF Falsy(details.defaultProgrammerId) THEN None ELSE details.defaultProgrammerId]

\* boardsService.getBoardDetails: the details of an installed board; for a
\* board that is not installed it yields undefined or fails
getBoardDetails(fqbn) ==
  IF fqbn \in installed THEN {Value(Some(BoardDetailsData(fqbn)))}
  ELSE {Value(None)} \cup {Rejection(e) : e \in GetDetailsErrors}
\* loadBoardDetails that throws again the errors it does not expect
loadBoardDetails_catch_rethrowUnexpected(outcome) ==
  IF outcome.kind = "value" THEN outcome
  ELSE IF outcome.error.message = "loading board data: platform is not installed"
       THEN Value(None) ELSE outcome
\* the try/catch of loadBoardDetails: what it settles with when the boards
\* service settles with outcome
loadBoardDetails_catch(outcome) ==
  IF outcome.kind = "value" THEN outcome ELSE Value(None)
\* loadBoardDetails: the details of an installed board, undefined when the
\* boards service fails
loadBoardDetails(fqbn) ==
  IF fqbn \in installed THEN Some(BoardDetailsData(fqbn)) ELSE None

\* An operation of the store in flight.  pc is the await it is suspended at.
\* storedData and data are the locals of these names; rest are the boards the
\* platform-install handler has not visited yet and changes its local of that
\* name; error is what the operation is rejected with.  History: read (the
\* storage was read), caught (the error of the boards service that
\* loadBoardDetails caught), provided (the boards service yielded details), loaded (the boards service was called), wrote (the fqbns
\* written to the storage), seen (for each board the handler visited, whether
\* the storage held a value and whether the boards service had its details) and
\* interfered (another operation wrote the board's key, or the installed
\* boards changed, while this one was in flight).
NoTask ==
  [op |-> "none", pc |-> "idle", fqbn |-> None, arg |-> None,
   storedData |-> None, data |-> None, result |-> None,
   rest |-> <<>>, changes |-> <<>>, error |-> None,
   read |-> FALSE, caught |-> None, provided |-> FALSE, loaded |-> FALSE, wrote |-> {}, seen |-> <<>>, interfered |-> FALSE]
Task(op, fqbn, arg) == [NoTask EXCEPT !.op = op, !.pc = "called", !.fqbn = fqbn, !.arg = arg]
Done(t, result) == [t EXCEPT !.pc = "done", !.result = Some(result)]
\* an await of the operation throws e, which no try block encloses
Rejected(t, e) == [t EXCEPT !.pc = "done", !.error = Some(e)]

\* getData up to its first await
getData_call(t) ==
  IF Falsy(t.fqbn) THEN [t EXCEPT !.pc = "ret", !.storedData = Some(Data_EMPTY)]
  ELSE [t EXCEPT !.pc = "read"]
\* getData that loads the board details whatever is stored
getData_afterRead_noCache(t, stored) ==
  [t EXCEPT !.pc = "details", !.loaded = TRUE]
\* getData resumes with what the storage holds under the key
getData_afterRead(t, stored) ==
  IF Data_is(stored) THEN [t EXCEPT !.pc = "ret", !.storedData = stored]
  ELSE [t EXCEPT !.pc = "details", !.loaded = TRUE]
\* getData resumes with the board details
getData_afterDetails(t, boardDetails) ==
  IF boardDetails = None THEN [t EXCEPT !.pc = "ret", !.storedData = Some(Data_EMPTY)]
  ELSE [t EXCEPT !.pc = "write",
                 !.storedData = Some(createDataStoreEntry(boardDetails[1]))]
\* getData resumes after storageService.setData and returns
getData_afterWrite(t) == [t EXCEPT !.pc = "ret"]

\* selectProgrammer that does not look the programmer up
selectProgrammer_resume_noLookup(t) ==
  [t EXCEPT !.pc = "setData",
            !.data = Some([t.storedData[1] EXCEPT !.selectedProgrammer = t.arg])]
\* selectProgrammer that stores the board's default entry with the programmer
selectProgrammer_resume_reset(t) ==
  LET storedData == t.storedData[1]
      same == {i \in 1..Len(storedData.programmers) :
                 Programmer_equals(t.arg[1], storedData.programmers[i])}
  IN IF Find(storedData.programmers, same) = None THEN Done(t, FALSE)
     ELSE [t EXCEPT !.pc = "setData",
                    !.data = Some([storedData EXCEPT
                                     !.selectedProgrammer = t.arg,
                                     !.configOptions = <<>>])]
\* selectProgrammer resumes with the data getData returned
selectProgrammer_resume(t) ==
  LET storedData == t.storedData[1]
      same == {i \in 1..Len(storedData.programmers) :
                 Programmer_equals(t.arg[1], storedData.programmers[i])}
  IN IF Find(storedData.programmers, same) = None THEN Done(t, FALSE)
     ELSE [t EXCEPT !.pc = "setData",
                    !.data = Some([storedData EXCEPT !.selectedProgrammer = t.arg])]

\* the values of a config option with selected set on those equal to selectedValue
SelectValue(values, selectedValue) ==
  [i \in 1..Len(values) |->
     [values[i] EXCEPT !.selected = (values[i].value = selectedValue)]]
\* selectConfigOption that leaves the other values of the option as they are
selectConfigOption_resume_keepOthers(t) ==
  LET data == t.storedData[1]
      option == t.arg[1].option
      selectedValue == t.arg[1].selectedValue
      Named(c) == c.option = option
      found == {i \in 1..Len(data.configOptions) : Named(data.configOptions[i])}
  IN IF found = {} THEN Done(t, FALSE)
     ELSE LET k == CHOOSE i \in found : \A j \in found : i <= j
              values == data.configOptions[k].values
              updated == \E i \in 1..Len(values) : values[i].value = selectedValue
              kept == [i \in 1..Len(values) |->
                         IF values[i].value = selectedValue
                         THEN [values[i] EXCEPT !.selected = TRUE] ELSE values[i]]
          IN IF ~updated THEN Done(t, FALSE)
             ELSE [t EXCEPT !.pc = "setData",
                            !.data = Some([data EXCEPT
                               !.configOptions[k].values = kept])]
\* selectConfigOption that stores the option without checking that a value matched
selectConfigOption_resume_noUpdatedCheck(t) ==
  LET data == t.storedData[1]
      option == t.arg[1].option
      selectedValue == t.arg[1].selectedValue
      Named(c) == c.option = option
      found == {i \in 1..Len(data.configOptions) : Named(data.configOptions[i])}
  IN IF found = {} THEN Done(t, FALSE)
     ELSE LET k == CHOOSE i \in found : \A j \in found : i <= j
              values == data.configOptions[k].values
          IN [t EXCEPT !.pc = "setData",
                       !.data = Some([data EXCEPT
                          !.configOptions[k].values = SelectValue(values, selectedValue)])]
\* selectConfigOption resumes with the data getData returned
selectConfigOption_resume(t) ==
  LET data == t.storedData[1]
      option == t.arg[1].option
      selectedValue == t.arg[1].selectedValue
      Named(c) == c.option = option
      found == {i \in 1..Len(data.configOptions) : Named(data.configOptions[i])}
  IN IF found = {} THEN Done(t, FALSE)
     ELSE LET k == CHOOSE i \in found : \A j \in found : i <= j
              values == data.configOptions[k].values
              updated == \E i \in 1..Len(values) : values[i].value = selectedValue
          IN IF ~updated THEN Done(t, FALSE)
             ELSE [t EXCEPT !.pc = "setData",
                            !.data = Some([data EXCEPT
                               !.configOptions[k].values = SelectValue(values, selectedValue)])]

\* getSelectedBoardData resumes with the data getData returned
getSelectedBoardData_resume(t) ==
  IF t.storedData[1] = Data_EMPTY THEN None
  ELSE Some([fqbn |-> t.fqbn[1], data |-> t.storedData[1]])

\* the operation resumes after the getData it awaits has returned
afterGetData(t) ==
  CASE t.op = "getData" -> Done(t, t.storedData[1])
    [] t.op = "updateSelectedBoardData" -> Done(t, getSelectedBoardData_resume(t))
    [] t.op = "selectProgrammer" -> selectProgrammer_resume(t)
    [] t.op = "selectConfigOption" -> selectConfigOption_resume(t)

\* the operation runs on from t to its next await or to its end
RunOn(t) == IF t.pc = "ret" THEN afterGetData(t) ELSE t

\* updateSelectedBoardData up to its first await
updateSelectedBoardData_call(t) ==
  IF Falsy(t.fqbn) THEN Done(t, None) ELSE RunOn(getData_call(t))

\* tasks(): the startup tasks of the store
BoardsDataStore_tasks ==
  IF selectedBoardData = None THEN <<>>
  ELSE <<[command |-> "arduino-use-inherited-boards-data", args |-> <<selectedBoardData[1]>>]>>

\* what a getData(fqbn) returns that finds stored under the key and gets
\* boardDetails from the boards service, running on its own
GetDataFrom(fqbn, stored, boardDetails) ==
  LET t0 == getData_call(Task("getData", Some(fqbn), None))
      t1 == IF t0.pc = "read" THEN getData_afterRead(t0, stored) ELSE t0
      t2 == IF t1.pc = "details" THEN getData_afterDetails(t1, boardDetails) ELSE t1
      t3 == IF t2.pc = "write" THEN getData_afterWrite([t2 EXCEPT !.wrote = {fqbn}]) ELSE t2
  IN afterGetData(t3)
\* a getData(fqbn) that follows the current state
GetDataNow(fqbn) == GetDataFrom(fqbn, storage[fqbn], loadBoardDetails(fqbn))

\* the platform-install handler goes on to its next board, or ends
handler_next(t) ==
  IF t.rest = <<>> THEN Done(t, "void")
  ELSE [t EXCEPT !.pc = "h.read", !.fqbn = Some(Head(t.rest))]
Visited(t) == [t EXCEPT !.rest = Tail(t.rest)]
\* the handler that rewrites every board of the platform
handler_afterRead_noStoredCheck(t, stored) ==
  [t EXCEPT !.pc = "h.details", !.loaded = TRUE]
\* the handler resumes with what the storage holds for the board
handler_afterRead(t, stored) ==
  IF stored = None THEN handler_next(Visited(t))
  ELSE [t EXCEPT !.pc = "h.details", !.loaded = TRUE]
\* the handler resumes with the board details
handler_afterDetails(t, boardDetails) ==
  IF boardDetails = None THEN handler_next(Visited(t))
  ELSE [t EXCEPT !.pc = "h.write",
                 !.data = Some(createDataStoreEntry(boardDetails[1]))]
\* the handler resumes after storageService.setData
handler_afterWrite(t) ==
  handler_next(Visited([t EXCEPT !.changes =
                          Append(t.changes, [fqbn |-> Head(t.rest), data |-> t.data[1]])]))

isBoardsDataStoreChange(arg) == arg.fqbn # None /\ Data_is(Some(arg.data))
\* the USE_INHERITED_DATA command that does not await setData
useInheritedData_call_noAwait(t) ==
  IF isBoardsDataStoreChange(t.arg[1])
  THEN Done([t EXCEPT !.fqbn = t.arg[1].fqbn, !.data = Some(t.arg[1].data)], "void")
  ELSE Done(t, "void")
\* the USE_INHERITED_DATA command up to its first await
useInheritedData_call(t) ==
  IF isBoardsDataStoreChange(t.arg[1])
  THEN [t EXCEPT !.pc = "setData", !.fqbn = t.arg[1].fqbn, !.data = Some(t.arg[1].data)]
  ELSE Done(t, "void")

\* the changes of the event an operation fires in the step that leads to t
Fires(t) ==
  CASE t.op \in {"selectProgrammer", "selectConfigOption"} ->
         IF t.pc = "done" /\ t.result = Some(TRUE)
         THEN Some(<<[fqbn |-> t.fqbn[1], data |-> t.data[1]]>>) ELSE None
    [] t.op = "useInheritedData" ->
         IF t.pc = "done" /\ t.data # None
         THEN Some(<<[fqbn |-> t.fqbn[1], data |-> t.data[1]]>>) ELSE None
    [] t.op = "platformDidInstall" ->
         IF t.pc = "done" /\ t.changes # <<>> THEN Some(t.changes) ELSE None
    [] OTHER -> None

\* the arguments the operations are called with
SelectProgrammerArgs == {p2, p3}
SelectConfigOptionArgs ==
  {[option |-> "cpu", selectedValue |-> "v2"],
   [option |-> "cpu", selectedValue |-> "zz"],
   [option |-> "nope", selectedValue |-> "v2"]}
InheritedData == [createDataStoreEntry(BoardDetailsData("a:b:c")) EXCEPT
                    !.selectedProgrammer = Some(p2)]
UseInheritedDataArgs ==
  {[fqbn |-> Some("a:b:c"), data |-> InheritedData],
   [fqbn |-> Some("a:b:c"), data |-> Corrupt],
   [fqbn |-> None, data |-> InheritedData]}
\* item.boards of the installed platform: one board has no fqbn
PlatformBoards == <<Some("a:b:c"), None, Some("x:y:z")>>
notEmpty(boards) ==
  LET defined == SelectSeq(boards, LAMBDA b : b # None) IN
  [i \in 1..Len(defined) |-> defined[i][1]]

FreeTask == CHOOSE i \in DOMAIN tasks : tasks[i].pc = "idle" /\
                \A j \in DOMAIN tasks : tasks[j].pc = "idle" => i <= j
\* the operations in flight on the key of fqbn, but for operation i
Interfere(ts, i, fqbn) ==
  [j \in DOMAIN tasks |->
     IF j # i /\ ts[j].pc # "idle" /\
        (ts[j].fqbn = Some(fqbn) \/ \E k \in 1..Len(ts[j].seen) : ts[j].seen[k].fqbn = fqbn)
     THEN [ts[j] EXCEPT !.interfered = TRUE] ELSE ts[j]]
InterfereAll(ts) ==
  [j \in DOMAIN tasks |->
     IF ts[j].pc # "idle" THEN [ts[j] EXCEPT !.interfered = TRUE] ELSE ts[j]]

\* operation i is now t: it is suspended at its next await, or has ended
Becomes(ts, i, t) ==
  /\ tasks' = [ts EXCEPT ![i] = IF t.pc = "done" THEN NoTask ELSE t]
  /\ returned' = IF t.pc = "done" THEN Some(t) ELSE None
  /\ fired' = Fires(t)
  /\ selectedBoardData' =
       IF t.op = "updateSelectedBoardData" /\ t.pc = "done" /\ t.error = None
       THEN t.result[1] ELSE selectedBoardData

GetData ==
  /\ \E i \in DOMAIN tasks : tasks[i].pc = "idle"
  /\ \E fqbn \in {None, Some("")} \cup {Some(f) : f \in Fqbns} :
       Becomes(tasks, FreeTask, RunOn(getData_call(Task("getData", fqbn, None))))
  /\ UNCHANGED <<storage, installed, ideVars, verified>>

SelectProgrammer ==
  /\ \E i \in DOMAIN tasks : tasks[i].pc = "idle"
  /\ \E fqbn \in Fqbns, selectedProgrammer \in SelectProgrammerArgs :
       Becomes(tasks, FreeTask,
               RunOn(getData_call(Task("selectProgrammer", Some(fqbn),
                                       Some(selectedProgrammer)))))
  /\ UNCHANGED <<storage, installed, ideVars, verified>>

SelectConfigOption ==
  /\ \E i \in DOMAIN tasks : tasks[i].pc = "idle"
  /\ \E arg \in SelectConfigOptionArgs :
       Becomes(tasks, FreeTask,
               RunOn(getData_call(Task("selectConfigOption", Some("a:b:c"), Some(arg)))))
  /\ UNCHANGED <<storage, installed, ideVars, verified>>

UseInheritedData ==
  /\ \E i \in DOMAIN tasks : tasks[i].pc = "idle"
  /\ \E arg \in UseInheritedDataArgs :
       Becomes(tasks, FreeTask,
               useInheritedData_call(Task("useInheritedData", None, Some(arg))))
  /\ UNCHANGED <<storage, installed, ideVars, verified>>

\* the selected board changes: the listener of onStart updates the selected
\* board data
StoreOnBoardsConfigDidChange ==
  /\ \E i \in DOMAIN tasks : tasks[i].pc = "idle"
  /\ \E board \in IdeBoards \ {selectedBoard} :
       /\ selectedBoard' = board
       /\ Becomes(tasks, FreeTask,
                  updateSelectedBoardData_call(
                    Task("updateSelectedBoardData",
                         IF board = None THEN None ELSE board[1].fqbn, None)))
  /\ UNCHANGED <<storage, installed, verified, call, starts, currentSketch, disabledMessage,
                 tooltip, lifecycle, refreshes, refreshCompleted, settled>>

\* the boards service provider and the application are ready: onStart updates
\* the selected board data
StoreOnReady ==
  /\ \E i \in DOMAIN tasks : tasks[i].pc = "idle"
  /\ lifecycle = "constructed"
  /\ lifecycle' = "ready"
  /\ Becomes(tasks, FreeTask,
             updateSelectedBoardData_call(
               Task("updateSelectedBoardData",
                    IF selectedBoard = None THEN None ELSE selectedBoard[1].fqbn, None)))
  /\ UNCHANGED <<storage, installed, verified, call, starts, currentSketch, selectedBoard,
                 disabledMessage, tooltip, refreshes, refreshCompleted, settled>>

\* a platform is installed: the boards service has its boards from now on and
\* the store's onPlatformDidInstall listener starts
StoreOnPlatformDidInstall ==
  /\ \E i \in DOMAIN tasks : tasks[i].pc = "idle"
  /\ installed' = installed \cup {b[1] : b \in {PlatformBoards[k] : k \in 1..Len(PlatformBoards)} \ {None}}
  /\ Becomes(InterfereAll(tasks), FreeTask,
             handler_next([Task("platformDidInstall", None, None) EXCEPT
                             !.rest = notEmpty(PlatformBoards)]))
  /\ UNCHANGED <<storage, ideVars, verified>>

\* the platform is uninstalled: the boards service fails for its boards
BoardsPackageUninstalled ==
  /\ installed # {}
  /\ installed' = {}
  /\ tasks' = InterfereAll(tasks)
  /\ returned' = None
  /\ fired' = None
  /\ UNCHANGED <<storage, ideVars, verified, selectedBoardData>>

\* storageService.getData settles in getData
StorageRead(i) ==
  /\ tasks[i].pc = "read"
  /\ Becomes(tasks, i, RunOn(getData_afterRead([tasks[i] EXCEPT !.read = TRUE],
                                                storage[tasks[i].fqbn[1]])))
  /\ UNCHANGED <<storage, installed, ideVars, verified>>

\* loadBoardDetails settles in getData
DetailsLoaded(i) ==
  /\ tasks[i].pc = "details"
  /\ \E outcome \in getBoardDetails(tasks[i].fqbn[1]) :
       LET boardDetails == loadBoardDetails_catch(outcome)
           t == [tasks[i] EXCEPT !.caught = IF outcome.kind = "error"
                                            THEN Some(outcome.error) ELSE None,
                                 !.provided = (outcome.kind = "value" /\ outcome.value # None)]
       IN Becomes(tasks, i, IF boardDetails.kind = "error"
                            THEN Rejected(t, boardDetails.error)
                            ELSE RunOn(getData_afterDetails(t, boardDetails.value)))
  /\ UNCHANGED <<storage, installed, ideVars, verified>>

\* storageService.setData settles in getData
EntryStored(i) ==
  LET t == tasks[i] IN
  /\ t.pc = "write"
  /\ storage' = [storage EXCEPT ![t.fqbn[1]] = t.storedData]
  /\ Becomes(Interfere(tasks, i, t.fqbn[1]), i,
             RunOn(getData_afterWrite([t EXCEPT !.wrote = @ \cup {t.fqbn[1]}])))
  /\ UNCHANGED <<installed, ideVars, verified>>

\* setData settles in selectProgrammer, selectConfigOption or the command
DataStored(i) ==
  LET t == tasks[i] IN
  /\ t.pc = "setData"
  /\ storage' = [storage EXCEPT ![t.fqbn[1]] = t.data]
  /\ Becomes(Interfere(tasks, i, t.fqbn[1]), i,
             Done([t EXCEPT !.wrote = @ \cup {t.fqbn[1]}],
                  IF t.op = "useInheritedData" THEN "void" ELSE TRUE))
  /\ UNCHANGED <<installed, ideVars, verified>>

\* storageService.getData settles in the platform-install handler
HandlerRead(i) ==
  /\ tasks[i].pc = "h.read"
  /\ LET fqbn == tasks[i].fqbn[1]
         t == [tasks[i] EXCEPT !.seen = Append(@, [fqbn |-> fqbn,
                                                   stored |-> storage[fqbn] # None,
                                                   details |-> FALSE])]
     IN Becomes(tasks, i, handler_afterRead(t, storage[fqbn]))
  /\ UNCHANGED <<storage, installed, ideVars, verified>>

\* loadBoardDetails settles in the platform-install handler
HandlerDetails(i) ==
  /\ tasks[i].pc = "h.details"
  /\ \E outcome \in getBoardDetails(tasks[i].fqbn[1]) :
       LET boardDetails == loadBoardDetails_catch(outcome)
           t == [tasks[i] EXCEPT !.seen[Len(tasks[i].seen)].details =
                                    (boardDetails = Value(Some(BoardDetailsData(tasks[i].fqbn[1]))))]
       IN Becomes(tasks, i, IF boardDetails.kind = "error"
                            THEN Rejected(t, boardDetails.error)
                            ELSE handler_afterDetails(t, boardDetails.value))
  /\ UNCHANGED <<storage, installed, ideVars, verified>>

\* storageService.setData settles in the platform-install handler
HandlerWrite(i) ==
  LET t == tasks[i] IN
  /\ t.pc = "h.write"
  /\ storage' = [storage EXCEPT ![t.fqbn[1]] = t.data]
  /\ Becomes(Interfere(tasks, i, t.fqbn[1]), i,
             handler_afterWrite([t EXCEPT !.wrote = @ \cup {t.fqbn[1]}]))
  /\ UNCHANGED <<installed, ideVars, verified>>

----------------------------------------------------------------------------
(* The Debug contribution with the services it calls: the boards service   *)
(* (installed, verified) and the boards data store (storage), whose        *)
(* operations run here without interleaving.                               *)

\* ConfigOption.decorate: the fqbn followed by option=value of the selected
\* value of every config option
RECURSIVE SelectedConfig(_)
SelectedConfig(configOptions) ==
  IF configOptions = <<>> THEN ""
  ELSE LET c == Head(configOptions)
           value == Find(c.values, {i \in 1..Len(c.values) : c.values[i].selected})
       IN (IF value = None THEN "" ELSE ":" \o c.option \o "=" \o value[1].value)
            \o SelectedConfig(Tail(configOptions))
ConfigOption_decorate(fqbn, configOptions) == fqbn \o SelectedConfig(configOptions)

\* what the callbacks of refreshState settle with
ServiceOutcome(callback, fqbn) ==
  CASE callback = "getDetails" -> Value(loadBoardDetails(fqbn))
    [] callback = "getData" -> Value(GetDataNow(fqbn).result[1])
    [] callback = "appendConfigToFqbn" ->
         Value(Some(ConfigOption_decorate(fqbn, GetDataNow(fqbn).result[1].configOptions)))
\* checkDebugEnabled fails until the sketch is compiled, with an error that
\* isSketchNotVerifiedError recognises
ServiceCheckOutcome ==
  IF verified THEN Value(None)
  ELSE Rejection(Error("checkDebugEnabled", "unhandled error"))

\* isDebugEnabled from its first await to its second, or to its end
isDebugEnabled_fetch(f) ==
  LET fqbn == f.board[1].fqbn[1]
      f1 == isDebugEnabled_settle(f, "getDetails", ServiceOutcome("getDetails", fqbn))
      f2 == isDebugEnabled_settle(f1, "getData", ServiceOutcome("getData", fqbn))
      f3 == isDebugEnabled_settle(f2, "appendConfigToFqbn",
                                  ServiceOutcome("appendConfigToFqbn", fqbn))
  IN isDebugEnabled_afterAll(f3)
\* isDebugEnabled from its second await to its end
isDebugEnabled_check(f) ==
  LET f1 == isDebugEnabled_afterCheck(f, ServiceCheckOutcome) IN
  IF f1.pc = "awaitVerify" THEN isDebugEnabled_afterVerify(f1, ~verified) ELSE f1
\* isDebugEnabled run from its call to its end in the current state
isDebugEnabled_now(sketch, board) ==
  LET f0 == isDebugEnabled_enter(sketch, board)
      f1 == IF f0.pc = "awaitAll" THEN isDebugEnabled_fetch(f0) ELSE f0
  IN IF f1.pc = "awaitCheck" THEN isDebugEnabled_check(f1) ELSE f1

\* the listeners of onStart refresh the state
Notified ==
  IF lifecycle = "constructed" THEN UNCHANGED refreshes
  ELSE refreshState(currentSketch, selectedBoard)

\* the sketch is opened before the contributions start
SketchOpened ==
  /\ ~Settling
  /\ lifecycle = "constructed"
  /\ \E sketch \in IdeSketches \ {currentSketch} : currentSketch' = sketch
  /\ fired' = None
  /\ UNCHANGED <<storeVars, call, starts, selectedBoard, disabledMessage, tooltip, lifecycle,
                 refreshes, refreshCompleted, settled>>

PlatformInstalled ==
  /\ ~Settling
  /\ installed # Fqbns
  /\ installed' = Fqbns
  /\ Notified
  /\ fired' = None
  /\ UNCHANGED <<storage, tasks, returned, selectedBoardData, verified, call, starts, currentSketch,
                 selectedBoard, disabledMessage, tooltip, lifecycle,
                 refreshCompleted, settled>>

PlatformUninstalled ==
  /\ ~Settling
  /\ installed # {}
  /\ installed' = {}
  /\ Notified
  /\ fired' = None
  /\ UNCHANGED <<storage, tasks, returned, selectedBoardData, verified, call, starts, currentSketch,
                 selectedBoard, disabledMessage, tooltip, lifecycle,
                 refreshCompleted, settled>>

\* selectProgrammer({fqbn, selectedProgrammer: p2}) returns true; the listener
\* of the store's event refreshes the state when fqbn is the selected one
ProgrammerSelected ==
  /\ ~Settling
  /\ \E fqbn \in Fqbns :
       LET t == RunOn(GetDataNow(fqbn))
           selectedFqbn == IF selectedBoard = None THEN None ELSE selectedBoard[1].fqbn
       IN /\ selectProgrammer_resume(
               [t EXCEPT !.op = "selectProgrammer", !.arg = Some(p2)]).pc = "setData"
          /\ t.result[1].selectedProgrammer # Some(p2)
          /\ storage' = [storage EXCEPT ![fqbn] =
                           Some([t.result[1] EXCEPT !.selectedProgrammer = Some(p2)])]
          /\ fired' = Some(<<[fqbn |-> fqbn,
                               data |-> [t.result[1] EXCEPT !.selectedProgrammer = Some(p2)]]>>)
          /\ IF hasChangeOf(<<[fqbn |-> fqbn, data |-> t.result[1]]>>, selectedFqbn)
             THEN Notified ELSE UNCHANGED refreshes
  /\ UNCHANGED <<installed, tasks, returned, selectedBoardData, verified, call, starts, currentSketch,
                 selectedBoard, disabledMessage, tooltip, lifecycle,
                 refreshCompleted, settled>>

\* the sketch is compiled and the build-complete command is executed
BuildCompleted ==
  /\ ~Settling
  /\ verified' = TRUE
  /\ Notified
  /\ fired' = None
  /\ UNCHANGED <<storage, installed, tasks, returned, selectedBoardData, call, starts, currentSketch,
                 selectedBoard, disabledMessage, tooltip, lifecycle,
                 refreshCompleted, settled>>

\* the fetches of a refresh settle with what the services hold; getData stores
\* the entry it creates
ServicesFetched ==
  /\ ~Settling
  /\ \E i \in 1..MaxRefreshes :
        /\ refreshes[i].pc = "awaitAll"
        /\ LET fqbn == refreshes[i].board[1].fqbn[1]
               read == GetDataNow(fqbn)
               f == isDebugEnabled_fetch(refreshes[i])
           IN /\ storage' = IF fqbn \in read.wrote
                            THEN [storage EXCEPT ![fqbn] = read.result]
                            ELSE storage
              /\ IF f.pc = "done" THEN refreshState_resume(i, f)
                 ELSE refreshState_suspend(i, f)
  /\ fired' = None
  /\ UNCHANGED <<installed, tasks, returned, selectedBoardData, verified, call, starts, currentSketch,
                 selectedBoard, lifecycle>>

\* checkDebugEnabled of a refresh settles with what the boards service holds
ServicesChecked ==
  /\ ~Settling
  /\ \E i \in 1..MaxRefreshes :
        /\ refreshes[i].pc = "awaitCheck"
        /\ refreshState_resume(i, isDebugEnabled_check(refreshes[i]))
  /\ fired' = None
  /\ UNCHANGED <<storeVars, call, starts, currentSketch, selectedBoard, lifecycle>>

----------------------------------------------------------------------------
(* startDebug: the Start Debugging command (debug.ts:211-263), executed    *)
(* for whatever board and sketch is current.  An invocation made by        *)
(* startDebug itself continues in the same record; executed tells whether  *)
(* the current invocation has executed 'arduino.debug.start', executions   *)
(* counts those executions, attempts the invocations, and retriedOn holds  *)
(* the error, the answer and the command result of the invocation that     *)
(* invoked startDebug again.                                               *)

yes == "Yes"
SelectManually == "Select Manually"

\* what 'arduino.debug.start' throws: Error objects, and a string
StartErrors ==
  { [isError |-> TRUE, message |-> "Missing programmer"],
    [isError |-> FALSE, message |-> "missing programmer"],
    [isError |-> TRUE, message |-> "sketch is not built"],
    [isError |-> TRUE, message |-> "unexpected failure"] }
\* /missing programmer/gi.test(message), on the messages above
mentionsMissingProgrammer(message) ==
  message \in {"Missing programmer", "missing programmer"}
DebugOutcomes ==
  {Value(Some(TRUE)), Value(Some(FALSE)), Value(None)}
    \cup {Rejection(e) : e \in StartErrors}
\* the answers to a message of the message service
Answers == {None, Some(yes), Some(SelectManually)}
\* what the command arduino-select-programmer yields
SelectProgrammerResults == {None, Some(p2), Some([id |-> "p2"])}

NoStart ==
  [pc |-> "idle", board |-> None, sketch |-> SketchUndefined, params |-> None,
   err |-> None, answer |-> None, selected |-> None, result |-> None,
   executed |-> FALSE, executions |-> 0, attempts |-> 0, retriedOn |-> None]
Return(s, value) == [s EXCEPT !.pc = "done", !.result = Some(value)]

\* startDebug up to the first await of createStartDebugParams; s holds the
\* counters of the invocations before this one
startDebug_call(s, board) ==
  LET t == [NoStart EXCEPT !.board = board, !.executions = s.executions,
                           !.attempts = s.attempts + 1, !.retriedOn = s.retriedOn]
  IN IF board = None \/ Falsy(board[1].fqbn) THEN Return(t, FALSE)
     ELSE [t EXCEPT !.pc = "params"]

\* createStartDebugParams resumes with the sketch and the data of the board,
\* and startDebug executes 'arduino.debug.start' with the params
createStartDebugParams_resume(s, sketch, boardsData) ==
  IF ~CurrentSketch_isValid(sketch) THEN Return([s EXCEPT !.sketch = sketch], FALSE)
  ELSE [s EXCEPT !.pc = "debug", !.sketch = sketch,
                 !.executed = TRUE, !.executions = @ + 1,
                 !.params = Some([board |-> [fqbn |-> s.board[1].fqbn[1],
                                             name |-> s.board[1].name],
                                  sketchPath |-> sketch.uri,
                                  programmer |->
                                    IF boardsData.selectedProgrammer = None THEN None
                                    ELSE Some(boardsData.selectedProgrammer[1].id)])]

\* startDebug resumes after 'arduino.debug.start' settled
startDebug_afterDebug(s, outcome) ==
  IF outcome.kind = "value" THEN Return(s, outcome.value = Some(TRUE))
  ELSE LET err == outcome.error IN
       IF err.isError /\ mentionsMissingProgrammer(err.message)
       THEN [s EXCEPT !.pc = "warn", !.err = Some(err)]
       ELSE [s EXCEPT !.pc = "verify", !.err = Some(err)]

\* startDebug resumes with the answer to the warning
startDebug_afterWarn(s, answer) ==
  IF answer = Some(yes) THEN [s EXCEPT !.pc = "select", !.answer = answer]
  ELSE Return([s EXCEPT !.answer = answer], FALSE)

\* startDebug that starts again whatever the command yields
startDebug_afterSelect_always(s, selected, board) ==
  startDebug_call(s, board)
\* startDebug resumes with what arduino-select-programmer yields; board is
\* the selected board
startDebug_afterSelect(s, selected, board) ==
  IF selected # None /\ isProgrammer(selected[1]) THEN startDebug_call(s, board)
  ELSE Return([s EXCEPT !.selected = selected], FALSE)

\* startDebug resumes with what isSketchNotVerifiedError yields
startDebug_afterVerify(s, sketchNotVerified) ==
  IF sketchNotVerified THEN [s EXCEPT !.pc = "ask"] ELSE Return(s, FALSE)

\* startDebug resumes with the answer to the error message
startDebug_afterAsk(s, answer) == Return([s EXCEPT !.answer = answer], FALSE)

\* invocations of startDebug per execution of the command
MaxAttempts == 2

\* the Start Debugging command is executed
StartDebug ==
  /\ starts.pc \in {"idle", "done"}
  /\ starts' = startDebug_call(NoStart, selectedBoard)
  /\ fired' = None
  /\ UNCHANGED <<storeVars, call, currentSketch, selectedBoard, disabledMessage,
                 tooltip, lifecycle, refreshes, refreshCompleted, settled>>

\* the sketch, the executables and the data of the board are there; getData
\* stores the entry it creates
StartParamsCreated ==
  /\ starts.pc = "params"
  /\ LET fqbn == starts.board[1].fqbn[1]
         read == GetDataNow(fqbn)
     IN /\ storage' = IF fqbn \in read.wrote
                      THEN [storage EXCEPT ![fqbn] = read.result] ELSE storage
        /\ starts' = createStartDebugParams_resume(starts, currentSketch, read.result[1])
  /\ fired' = None
  /\ UNCHANGED <<installed, tasks, returned, verified, selectedBoardData, call,
                 currentSketch, selectedBoard, disabledMessage, tooltip, lifecycle,
                 refreshes, refreshCompleted, settled>>

StartDebugSettles ==
  /\ starts.pc = "debug"
  /\ \E outcome \in DebugOutcomes : starts' = startDebug_afterDebug(starts, outcome)
  /\ fired' = None
  /\ UNCHANGED <<storeVars, call, currentSketch, selectedBoard, disabledMessage,
                 tooltip, lifecycle, refreshes, refreshCompleted, settled>>

StartWarnAnswered ==
  /\ starts.pc = "warn"
  /\ \E answer \in Answers : starts' = startDebug_afterWarn(starts, answer)
  /\ fired' = None
  /\ UNCHANGED <<storeVars, call, currentSketch, selectedBoard, disabledMessage,
                 tooltip, lifecycle, refreshes, refreshCompleted, settled>>

\* arduino-select-programmer settles; when startDebug invokes itself, the
\* invocation goes on in the record
StartProgrammerSelected ==
  /\ starts.pc = "select"
  /\ \E selected \in SelectProgrammerResults :
       LET s == startDebug_afterSelect(starts, selected, selectedBoard) IN
       /\ s.attempts <= MaxAttempts
       /\ starts' = IF s.attempts > starts.attempts
                    THEN [s EXCEPT !.retriedOn = Some([err |-> starts.err[1],
                                                       answer |-> starts.answer,
                                                       selected |-> selected])]
                    ELSE s
  /\ fired' = None
  /\ UNCHANGED <<storeVars, call, currentSketch, selectedBoard, disabledMessage,
                 tooltip, lifecycle, refreshes, refreshCompleted, settled>>

\* isSketchNotVerifiedError settles: false for what is no Error
StartVerifySettles ==
  /\ starts.pc = "verify"
  /\ \E sketchNotVerified \in (IF starts.err[1].isError THEN BOOLEAN ELSE {FALSE}) :
       starts' = startDebug_afterVerify(starts, sketchNotVerified)
  /\ fired' = None
  /\ UNCHANGED <<storeVars, call, currentSketch, selectedBoard, disabledMessage,
                 tooltip, lifecycle, refreshes, refreshCompleted, settled>>

StartAskAnswered ==
  /\ starts.pc = "ask"
  /\ \E answer \in Answers : starts' = startDebug_afterAsk(starts, answer)
  /\ fired' = None
  /\ UNCHANGED <<storeVars, call, currentSketch, selectedBoard, disabledMessage,
                 tooltip, lifecycle, refreshes, refreshCompleted, settled>>

----------------------------------------------------------------------------
InitIde ==
  /\ call = NoInvocation
  /\ starts = NoStart
  /\ currentSketch = SketchUndefined
  /\ selectedBoard = None
  /\ disabledMessage = Some(noBoardSelected)
  /\ tooltip = Debug_tooltip(Some(noBoardSelected))
  /\ lifecycle = "constructed"
  /\ refreshes = [i \in 1..MaxRefreshes |-> NoInvocation]
  /\ refreshCompleted = FALSE
  /\ settled = None

InitServices ==
  /\ tasks = [i \in 1..MaxTasks |-> NoTask]
  /\ fired = None
  /\ returned = None
  /\ verified = FALSE
  /\ selectedBoardData = None

Init ==
  /\ InitIde
  /\ InitServices
  /\ storage = [fqbn \in Fqbns |-> None]
  /\ installed = {}

\* the storage outlives the IDE session: it may hold a value of an earlier
\* version that is no Data
InitStore ==
  /\ InitIde
  /\ InitServices
  /\ storage \in {[fqbn \in Fqbns |-> None],
                  [fqbn \in Fqbns |-> IF fqbn = "a:b:c" THEN Some(Corrupt) ELSE None]}
  /\ installed = {}

\* the platform of the boards is installed, nothing is stored, and the
\* operations of the store may overlap
InitRace ==
  /\ InitIde
  /\ tasks = [i \in 1..MaxRacing |-> NoTask]
  /\ fired = None
  /\ returned = None
  /\ verified = FALSE
  /\ selectedBoardData = None
  /\ storage = [fqbn \in Fqbns |-> None]
  /\ installed = Fqbns

NextFn ==
  \/ Invoke
  \/ FetchSettles
  \/ ResumeAfterAll
  \/ CheckDebugEnabledSettles
  \/ IsSketchNotVerifiedErrorSettles

SpecFn == Init /\ [][NextFn]_vars

Next ==
  \/ OnStart
  \/ OnReady
  \/ BoardsConfigDidChange
  \/ PlatformDidInstall
  \/ PlatformDidUninstall
  \/ BoardsDataStoreDidChange
  \/ BuildDidComplete
  \/ CurrentSketchDidChange
  \/ RefreshFetched
  \/ RefreshChecked
  \/ RefreshCompletes

Spec == Init /\ [][Next]_vars

NextStore ==
  \/ GetData
  \/ SelectProgrammer
  \/ SelectConfigOption
  \/ UseInheritedData
  \/ StoreOnPlatformDidInstall
  \/ BoardsPackageUninstalled
  \/ \E i \in DOMAIN tasks :
        \/ StorageRead(i)
        \/ DetailsLoaded(i)
        \/ EntryStored(i)
        \/ DataStored(i)
        \/ HandlerRead(i)
        \/ HandlerDetails(i)
        \/ HandlerWrite(i)

SpecStore == InitStore /\ [][NextStore]_vars

\* the platform of the boards is installed and nothing is stored
InitStartup ==
  /\ InitIde
  /\ InitServices
  /\ storage = [fqbn \in Fqbns |-> None]
  /\ installed = Fqbns

NextStartup ==
  \/ StoreOnBoardsConfigDidChange
  \/ StoreOnReady
  \/ SelectProgrammer
  \/ SelectConfigOption
  \/ \E i \in DOMAIN tasks :
        \/ StorageRead(i)
        \/ DetailsLoaded(i)
        \/ EntryStored(i)
        \/ DataStored(i)

SpecStartup == InitStartup /\ [][NextStartup]_vars

NextSelections ==
  \/ GetData
  \/ SelectProgrammer
  \/ SelectConfigOption
  \/ StoreOnPlatformDidInstall
  \/ BoardsPackageUninstalled
  \/ \E i \in DOMAIN tasks :
        \/ StorageRead(i)
        \/ DetailsLoaded(i)
        \/ EntryStored(i)
        \/ DataStored(i)
        \/ HandlerRead(i)
        \/ HandlerDetails(i)
        \/ HandlerWrite(i)

SpecSelections == Init /\ [][NextSelections]_vars

NextStart ==
  \/ StartDebug
  \/ StartParamsCreated
  \/ StartDebugSettles
  \/ StartWarnAnswered
  \/ StartProgrammerSelected
  \/ StartVerifySettles
  \/ StartAskAnswered
  \/ BoardsConfigDidChange
  \/ CurrentSketchDidChange

SpecStart == InitStartup /\ [][NextStart]_vars

NextRace ==
  \/ GetData
  \/ SelectProgrammer
  \/ SelectConfigOption
  \/ \E i \in DOMAIN tasks :
        \/ StorageRead(i)
        \/ DetailsLoaded(i)
        \/ EntryStored(i)
        \/ DataStored(i)

SpecRace == InitRace /\ [][NextRace]_vars

NextServices ==
  \/ OnStart
  \/ OnReady
  \/ SketchOpened
  \/ BoardsConfigDidChange
  \/ PlatformInstalled
  \/ PlatformUninstalled
  \/ ProgrammerSelected
  \/ BuildCompleted
  \/ ServicesFetched
  \/ ServicesChecked
  \/ RefreshCompletes

SpecServices == Init /\ [][NextServices]_vars

----------------------------------------------------------------------------
(* Properties of isDebugEnabled, stated of the invocation of the direct    *)
(* caller and checked under SpecFn                                         *)

RejectedWith(f, message) ==
  f.pc = "done" /\ f.state = "rejected" /\ f.reason # None
    /\ f.reason[1].message = message
NoCallbackInvoked(f) == \A c \in DOMAIN f.calls : f.calls[c] = <<>>
NeverChecked(f) ==
  f.calls.checkDebugEnabled = <<>> /\ f.calls.isSketchNotVerifiedError = <<>>
ValidSketch(f) == f.pc # "idle" /\ CurrentSketch_isValid(f.sketch)
HasFqbn(f) == f.board # None /\ ~Falsy(f.board[1].fqbn)
\* what the three fetches yielded, once Promise.all is fulfilled
Details(f) == f.fetched.getDetails[1].value
FetchedData(f) == f.fetched.getData[1].value
FqbnWithConfig(f) == f.fetched.appendConfigToFqbn[1].value
\* checkDebugEnabled threw
CheckThrew(f) == f.checked # None /\ f.checked[1].kind = "error"
PreChecksPass(f) ==
  /\ ValidSketch(f) /\ HasFqbn(f) /\ FetchFulfilled(f)
  /\ Details(f) # None
  /\ ~Falsy(FqbnWithConfig(f))
  /\ FetchedData(f).selectedProgrammer # None

\* C1: an invocation with a sketch that is undefined or not valid is rejected
\* with an Error whose message is noSketchOpened, whatever the board, and
\* none of the five callbacks is invoked.
C1_InvalidSketchRejected ==
  (call.pc # "idle" /\ ~CurrentSketch_isValid(call.sketch))
    => (RejectedWith(call, noSketchOpened) /\ NoCallbackInvoked(call))
C1_Witness ==
  /\ call.sketch = SketchInvalid /\ HasFqbn(call)
  /\ RejectedWith(call, noSketchOpened)

C8_SupportedResolves ==
  PreChecksPass(call)
    => /\ call.pc = "done" => call.checked # None
       /\ call.checked = Some(Value(None))
            => /\ call.pc = "done" /\ call.state = "fulfilled"
               /\ call.calls.isSketchNotVerifiedError = <<>>
C8_Witness ==
  /\ PreChecksPass(call) /\ call.checked = Some(Value(None))
  /\ call.state = "fulfilled"

\* the failure conditions of an invocation, in the order of the checks
Fails(i, f) ==
  CASE i = 1 -> ~CurrentSketch_isValid(f.sketch)
    [] i = 2 -> f.board = None
    [] i = 3 -> f.board # None /\ Falsy(f.board[1].fqbn)
    [] i = 4 -> FetchFulfilled(f) /\ Details(f) = None
    [] i = 5 -> FetchFulfilled(f) /\ Falsy(FqbnWithConfig(f))
    [] i = 6 -> FetchFulfilled(f) /\ FetchedData(f).selectedProgrammer = None
    [] i = 7 -> CheckThrew(f)
FailureMessage(i, f) ==
  CASE i = 1 -> noSketchOpened
    [] i = 2 -> noBoardSelected
    [] i = 3 -> noPlatformInstalledFor(f.board[1].name)
    [] i = 4 -> noPlatformInstalledFor(f.board[1].name)
    [] i = 5 -> failedToAppend(f.board[1].fqbn[1])
    [] i = 6 -> noProgrammerSelectedFor(f.board[1].name)
    [] i = 7 -> IF f.sketchNotVerified = Some(TRUE)
                THEN sketchIsNotCompiled(f.sketch.name)
                ELSE debuggingNotSupported(f.board[1].name)
Failing(f) == {i \in 1..7 : Fails(i, f)}
First(S) == CHOOSE i \in S : \A j \in S : i <= j

\* C9: the checks are ordered and short-circuiting: an invocation whose
\* fetches were not rejected is fulfilled when no failure condition holds and
\* otherwise rejected with the message of the first condition that holds, in
\* the order invalid sketch, no board, no fqbn, no board details, no decorated
\* FQBN, no selected programmer, checkDebugEnabled failure.
C9_FirstFailureReported ==
  (call.pc = "done" /\ ~FetchRejected(call))
    => IF Failing(call) = {} THEN call.state = "fulfilled"
       ELSE RejectedWith(call, FailureMessage(First(Failing(call)), call))
C9_Witness ==
  /\ call.pc = "done" /\ {4, 6} \subseteq Failing(call)
  /\ RejectedWith(call, noPlatformInstalledFor(call.board[1].name))

----------------------------------------------------------------------------
(* Properties of the Debug contribution, checked under Spec                *)

----------------------------------------------------------------------------
(* Properties of the boards data store, under SpecStore.  returned is the  *)
(* operation that ended in the last step, with its arguments, its locals   *)
(* and its result.                                                         *)

Returned(op) == returned # None /\ returned[1].op = op
ReturnedTrue(op) == Returned(op) /\ returned[1].result = Some(TRUE)
ReturnedFalse(op) == Returned(op) /\ returned[1].result = Some(FALSE)

\* C12: when selectProgrammer({fqbn, selectedProgrammer}) has returned true, the
\* getData(fqbn) that follows returns data whose selectedProgrammer is the given
\* programmer and whose configOptions, programmers and defaultProgrammerId are
\* those of the data the board had when selectProgrammer read it.
C12_ProgrammerSelected ==
  ReturnedTrue("selectProgrammer") =>
    LET r == returned[1]
        before == r.storedData[1]
        after == GetDataNow(r.fqbn[1]).result[1]
    IN /\ after.selectedProgrammer = r.arg
       /\ after.configOptions = before.configOptions
       /\ after.programmers = before.programmers
       /\ after.defaultProgrammerId = before.defaultProgrammerId
       /\ GetDataNow(r.fqbn[1]).wrote = {}
\* selectProgrammer has replaced the default programmer of a:b:c, which has
\* config options, by another one
C12_Witness ==
  /\ ReturnedTrue("selectProgrammer")
  /\ returned[1].fqbn = Some("a:b:c")
  /\ returned[1].storedData[1].selectedProgrammer = Some(p1)
  /\ returned[1].arg = Some(p2)
  /\ returned[1].storedData[1].configOptions # <<>>

\* the config option of data with the given name that selectConfigOption updates
Named(data, option) ==
  CHOOSE i \in 1..Len(data.configOptions) :
    /\ data.configOptions[i].option = option
    /\ \A j \in 1..(i - 1) : data.configOptions[j].option # option

\* C13: when selectConfigOption({fqbn, option, selectedValue}) has returned true,
\* the data stored for fqbn has, in the option of that name, selected = true on
\* exactly the values equal to selectedValue and false on the others; the value
\* names, every other config option, the programmers and the selected programmer
\* are those of the data the board had when selectConfigOption read it.
C13_OnlyNamedOptionUpdated ==
  ReturnedTrue("selectConfigOption") =>
    LET r == returned[1]
        before == r.storedData[1]
        after == storage[r.fqbn[1]][1]
        k == Named(before, r.arg[1].option)
    IN /\ storage[r.fqbn[1]] # None
       /\ Len(after.configOptions) = Len(before.configOptions)
       /\ \A i \in 1..Len(before.configOptions) :
            i # k => after.configOptions[i] = before.configOptions[i]
       /\ after.configOptions[k].option = before.configOptions[k].option
       /\ Len(after.configOptions[k].values) = Len(before.configOptions[k].values)
       /\ \A i \in 1..Len(before.configOptions[k].values) :
            /\ after.configOptions[k].values[i].value =
                 before.configOptions[k].values[i].value
            /\ after.configOptions[k].values[i].selected =
                 (before.configOptions[k].values[i].value = r.arg[1].selectedValue)
       /\ after.programmers = before.programmers
       /\ after.selectedProgrammer = before.selectedProgrammer
       /\ after.defaultProgrammerId = before.defaultProgrammerId
\* selectConfigOption has selected v2 of cpu, of which v1 was selected, on data
\* that has another option and a selected programmer
C13_Witness ==
  /\ ReturnedTrue("selectConfigOption")
  /\ returned[1].arg = Some([option |-> "cpu", selectedValue |-> "v2"])
  /\ returned[1].storedData[1].configOptions = <<cpu, flash>>
  /\ returned[1].storedData[1].selectedProgrammer # None

\* C14: getData is a read-through cache.  A getData that finds a value passing
\* Data.is stored returns that value, without calling the boards service and
\* without writing; one that finds no such value calls the boards service and,
\* when it gets the details, stores the entry built from them and returns it,
\* and the getData that follows returns equal data without calling the boards
\* service.
C14_ReadThrough ==
  [][\A i \in DOMAIN tasks :
       LET t == tasks[i]
           fqbn == t.fqbn[1]
           ends == returned' # None /\ tasks'[i] = NoTask
           entry == createDataStoreEntry(BoardDetailsData(fqbn))
           next == GetDataFrom(fqbn, storage'[fqbn], loadBoardDetails(fqbn))
       IN t.op = "getData" =>
            /\ (t.pc = "read" /\ tasks'[i].pc # "read" /\ Data_is(storage[fqbn])) =>
                 /\ ends
                 /\ returned'[1].result = storage[fqbn]
                 /\ ~returned'[1].loaded
                 /\ storage' = storage
            /\ (t.pc = "read" /\ tasks'[i].pc # "read" /\ ~Data_is(storage[fqbn])) =>
                 /\ tasks'[i].pc = "details"
                 /\ tasks'[i].loaded
                 /\ storage' = storage
            /\ (t.pc = "details" /\ tasks'[i].pc # "details" /\ fqbn \in installed) =>
                 /\ tasks'[i].pc = "write"
                 /\ storage' = storage
            /\ (t.pc = "write" /\ tasks'[i].pc # "write") =>
                 /\ ends
                 /\ returned'[1].result = Some(entry)
                 /\ storage' = [storage EXCEPT ![fqbn] = Some(entry)]
                 /\ next.result = Some(entry)
                 /\ ~next.loaded
                 /\ next.wrote = {}]_vars
\* a getData has stored and returned the entry built from the details of a:b:c
\* where a value that is no Data was stored
C14_Witness ==
  /\ Returned("getData")
  /\ returned[1].fqbn = Some("a:b:c")
  /\ returned[1].wrote = {"a:b:c"}
  /\ storage["a:b:c"] = Some(createDataStoreEntry(BoardDetailsData("a:b:c")))

\* C15: when the platform-install handler has ended, it has visited every board
\* of the platform that has an fqbn; the boards it has written to the storage
\* and the boards of the changes it has fired are exactly those for which the
\* storage held a value and the boards service had the details, each with the
\* entry built from the details; a board without a stored value is neither
\* written nor reported, and no event is fired when there is no such board.
C15_InstallRewritesStored ==
  Returned("platformDidInstall") =>
    LET r == returned[1]
        visited == {r.seen[k].fqbn : k \in 1..Len(r.seen)}
        rewritten == {r.seen[k].fqbn : k \in {j \in 1..Len(r.seen) :
                                                r.seen[j].stored /\ r.seen[j].details}}
    IN /\ visited = {PlatformBoards[k][1] : k \in {j \in 1..Len(PlatformBoards) :
                                                     PlatformBoards[j] # None}}
       /\ r.wrote = rewritten
       /\ {r.changes[k].fqbn : k \in 1..Len(r.changes)} = rewritten
       /\ Len(r.changes) = Cardinality(rewritten)
       /\ \A k \in 1..Len(r.changes) :
            r.changes[k].data = createDataStoreEntry(BoardDetailsData(r.changes[k].fqbn))
       /\ fired = IF rewritten = {} THEN None ELSE Some(r.changes)
\* the handler has rewritten and reported a:b:c, which had a stored value, and
\* has passed over x:y:z, which had none
C15_Witness ==
  /\ Returned("platformDidInstall")
  /\ fired # None
  /\ Len(fired[1]) = 1
  /\ fired[1][1].fqbn = "a:b:c"
  /\ \E k \in 1..Len(returned[1].seen) :
       returned[1].seen[k].fqbn = "x:y:z" /\ ~returned[1].seen[k].stored
  /\ storage["x:y:z"] = None

\* C18: the data of every change of a fired event has been written to the
\* storage by the operation that fires it, before it fires; unless another
\* operation has written the key since, a getData(fqbn) called by a listener of
\* the event returns the data of the change, from the storage.
C18_FiredAfterWrite ==
  fired # None =>
    /\ returned # None
    /\ returned[1].op \in {"selectProgrammer", "selectConfigOption",
                           "useInheritedData", "platformDidInstall"}
    /\ \A k \in 1..Len(fired[1]) :
         LET change == fired[1][k]
             read == GetDataNow(change.fqbn)
         IN /\ change.fqbn \in returned[1].wrote
            /\ ~returned[1].interfered =>
                 /\ storage[change.fqbn] = Some(change.data)
                 /\ read.result = Some(change.data)
                 /\ ~read.loaded
\* the command has fired the change it was executed with
C18_Witness ==
  /\ fired = Some(<<[fqbn |-> "a:b:c", data |-> InheritedData]>>)
  /\ Returned("useInheritedData")
  /\ ~returned[1].interfered
  /\ storage["a:b:c"] = Some(InheritedData)

Known(data, programmer) ==
  \E k \in 1..Len(data.programmers) : Programmer_equals(programmer, data.programmers[k])

HasValue(data, option, selectedValue) ==
  /\ \E i \in 1..Len(data.configOptions) : data.configOptions[i].option = option
  /\ LET values == data.configOptions[Named(data, option)].values
     IN \E i \in 1..Len(values) : values[i].value = selectedValue

----------------------------------------------------------------------------
(* The failure cases of the tests of isDebugEnabled, under SpecFn          *)

\* the failure cases of the tests: a valid sketch, and no board, a board
\* without fqbn, no board details, no selected programmer, or a failure of
\* checkDebugEnabled (the sketch is not verified, or the CLI fails)
TestedFailure(f) ==
  /\ f.pc = "done" /\ ValidSketch(f) /\ ~FetchRejected(f)
  /\ \/ f.board = None
     \/ f.board # None /\ f.board[1].fqbn = None
     \/ HasFqbn(f) /\ FetchFulfilled(f) /\ Details(f) = None
     \/ HasFqbn(f) /\ FetchFulfilled(f) /\ FetchedData(f).selectedProgrammer = None
     \/ CheckThrew(f)

----------------------------------------------------------------------------
(* The Debug contribution after a refresh, under Spec                      *)

----------------------------------------------------------------------------
(* The Debug contribution with its services, under SpecServices            *)

\* C11: when the contribution is ready and every refreshState that was started
\* has completed, disabledMessage is undefined exactly when isDebugEnabled, run
\* for the current sketch and the selected board on what the services hold,
\* is fulfilled.
C11_FinalStateIsCurrent ==
  (lifecycle = "ready" /\ \A i \in 1..MaxRefreshes : Idle(i)) =>
    (disabledMessage = None <=>
       isDebugEnabled_now(currentSketch, selectedBoard).state = "fulfilled")
----------------------------------------------------------------------------
(* getData without board details, under SpecStore                          *)

\* C21: a getData called without fqbn, or with the empty one, returns
\* Data.EMPTY without reading the storage, calling the boards service or
\* writing; a getData that finds no valid value stored and gets no details
\* from the boards service, because that yields undefined or fails, returns
\* Data.EMPTY and writes nothing; and no operation of the store is rejected:
\* loadBoardDetails catches every error of the boards service.
C21_EmptyWithoutDetails ==
  returned # None =>
    LET r == returned[1] IN
    /\ r.error = None
    /\ r.caught # None => ~r.provided
    /\ (r.op = "getData" /\ Falsy(r.fqbn)) =>
         /\ r.result = Some(Data_EMPTY)
         /\ ~r.read /\ ~r.loaded /\ r.wrote = {}
    /\ (r.op = "getData" /\ ~Falsy(r.fqbn)) =>
         /\ r.read
         /\ (r.loaded /\ ~r.provided) =>
              /\ r.result = Some(Data_EMPTY)
              /\ r.wrote = {}
\* a getData that found a value that is no Data stored has returned EMPTY after
\* the boards service failed with an error that is not the expected one, and
\* the storage holds what it held
C21_Witness ==
  /\ Returned("getData")
  /\ returned[1].fqbn = Some("a:b:c")
  /\ returned[1].caught = Some(Error("getDetails", "unexpected error"))
  /\ returned[1].result = Some(Data_EMPTY)
  /\ storage["a:b:c"] = Some(Corrupt)
----------------------------------------------------------------------------
(* The invocations of the callbacks of isDebugEnabled, under SpecFn        *)

\* C22: an invocation with a valid sketch and a board with an fqbn has invoked
\* getDetails, getData and appendConfigToFqbn once each, with the fqbn of the
\* board, and any other invocation has invoked none of them; checkDebugEnabled
\* is invoked at most once, only when the three have all completed, and with
\* the fqbn appendConfigToFqbn returned, the id of the selected programmer of
\* the data getData returned, and the uri of the sketch.
C22_CallbacksInvokedOnce ==
  call.pc # "idle" =>
    /\ IF ValidSketch(call) /\ HasFqbn(call)
       THEN \A c \in Callbacks : call.calls[c] = <<call.board[1].fqbn[1]>>
       ELSE \A c \in Callbacks : call.calls[c] = <<>>
    /\ Len(call.calls.checkDebugEnabled) <= 1
    /\ call.calls.checkDebugEnabled # <<>> =>
         /\ FetchFulfilled(call)
         /\ call.calls.checkDebugEnabled[1] =
              [fqbn |-> FqbnWithConfig(call)[1],
               programmer |-> FetchedData(call).selectedProgrammer[1].id,
               sketchUri |-> call.sketch.uri]
\* checkDebugEnabled has been invoked with a decorated fqbn and the programmer
\* that is not the default one
C22_Witness ==
  /\ call.pc = "done"
  /\ call.calls.getData = <<"a:b:c">>
  /\ call.calls.checkDebugEnabled =
       <<[fqbn |-> "a:b:c:opt=v", programmer |-> "p2",
          sketchUri |-> "file:///path/to/other/"]>>
----------------------------------------------------------------------------
(* Overlapping operations of the boards data store, under SpecRace         *)

\* the operation that returns in this step, and what it is
Ending(i) == tasks[i].pc # "idle" /\ tasks'[i] = NoTask /\ returned' # None
Selected(data, option, selectedValue) ==
  \E k \in 1..Len(data.configOptions) :
    /\ data.configOptions[k].option = option
    /\ \E v \in 1..Len(data.configOptions[k].values) :
         /\ data.configOptions[k].values[v].value = selectedValue
         /\ data.configOptions[k].values[v].selected

\* C23: when a selectProgrammer and a selectConfigOption for the same fqbn
\* overlap and both return true, one right after the other, the data stored for
\* the fqbn when the second has returned has the programmer of the one selected
\* and the value of the other selected.
C23_NoLostUpdate ==
  [][\A i \in DOMAIN tasks :
       (/\ Ending(i)
        /\ returned # None
        /\ {returned[1].op, returned'[1].op} = {"selectProgrammer", "selectConfigOption"}
        /\ returned[1].result = Some(TRUE)
        /\ returned'[1].result = Some(TRUE)
        /\ returned[1].fqbn = returned'[1].fqbn)
       => LET fqbn == returned[1].fqbn[1]
              byProgrammer == IF returned[1].op = "selectProgrammer"
                              THEN returned[1] ELSE returned'[1]
              byOption == IF returned[1].op = "selectConfigOption"
                          THEN returned[1] ELSE returned'[1]
          IN /\ storage'[fqbn] # None
             /\ storage'[fqbn][1].selectedProgrammer = byProgrammer.arg
             /\ Selected(storage'[fqbn][1], byOption.arg[1].option,
                         byOption.arg[1].selectedValue)]_vars

\* what is stored for fqbn is a selection: under SpecRace the storage starts
\* empty and the operations are getData, selectProgrammer and
\* selectConfigOption, so that a stored value that is not the default entry of
\* the board was stored by a selectProgrammer or a selectConfigOption that
\* returned true
HoldsSelection(fqbn) ==
  /\ storage[fqbn] # None
  /\ storage[fqbn] # Some(createDataStoreEntry(BoardDetailsData(fqbn)))

\* C24: a getData does not store the default entry of a board over a
\* selection: when the storage holds a selection for the fqbn at the time a
\* getData, which found nothing stored when it started, stores the entry it
\* has built, the selection stays what is stored for the fqbn.
C24_SelectionNotClobbered ==
  [][\A i \in DOMAIN tasks :
       (/\ tasks[i].op = "getData"
        /\ tasks[i].pc = "write"
        /\ Ending(i)
        /\ HoldsSelection(tasks[i].fqbn[1]))
       => storage'[tasks[i].fqbn[1]] = storage[tasks[i].fqbn[1]]]_vars
----------------------------------------------------------------------------
(* The startup task of the boards data store, under SpecStartup            *)

\* the fqbn of the selected board, if any
SelectedFqbn == IF selectedBoard = None THEN None ELSE selectedBoard[1].fqbn

\* C25: when no update of the selected board data is in flight, a startup task
\* that tasks() returns has as its argument the fqbn of the selected board and
\* the data stored for that board; and tasks() returns no task when no board
\* with an fqbn is selected, or when the data of the selected board is EMPTY.
C25_StartupTaskIsCurrent ==
  (\A i \in DOMAIN tasks : tasks[i].op # "updateSelectedBoardData") =>
    /\ BoardsDataStore_tasks # <<>> =>
         LET arg == BoardsDataStore_tasks[1].args[1] IN
         /\ SelectedFqbn = Some(arg.fqbn)
         /\ storage[arg.fqbn] = Some(arg.data)
    /\ Falsy(SelectedFqbn) => BoardsDataStore_tasks = <<>>
    /\ (/\ lifecycle = "ready" /\ ~Falsy(SelectedFqbn)
        /\ GetDataNow(SelectedFqbn[1]).result = Some(Data_EMPTY))
         => BoardsDataStore_tasks = <<>>
----------------------------------------------------------------------------
(* The selected programmer of the stored data, under SpecSelections: the   *)
(* storage starts empty and the operations are getData, selectProgrammer,  *)
(* selectConfigOption and the platform-install handler                     *)

\* the programmer of the details whose id is the defaultProgrammerId, if any
DefaultProgrammerOf(details) ==
  LET named == {k \in 1..Len(details.programmers) :
                  details.defaultProgrammerId = Some(details.programmers[k].id)}
  IN IF named = {} THEN None
     ELSE Some(details.programmers[CHOOSE k \in named : \A j \in named : k <= j])
\* board details with and without a default programmer among the programmers
DetailsValues ==
  [fqbn : {"a:b:c"}, configOptions : {<<>>},
   programmers : {<<>>, <<p2>>, <<p1, p2>>},
   defaultProgrammerId : {None, Some("p1"), Some("p3")}]

\* C26: the data stored for a board has a selectedProgrammer only if it is one
\* of the programmers of that data; and an entry created from board details,
\* by getData or by the platform-install handler, has as selectedProgrammer
\* the programmer whose id is the defaultProgrammerId of the details, and none
\* when no programmer has that id.
C26_SelectedProgrammerKnown ==
  /\ \A fqbn \in Fqbns :
       (storage[fqbn] # None /\ storage[fqbn][1].selectedProgrammer # None) =>
         Known(storage[fqbn][1], storage[fqbn][1].selectedProgrammer[1])
  /\ \A i \in DOMAIN tasks :
       /\ tasks[i].pc = "write" =>
            /\ tasks[i].storedData[1].programmers =
                 BoardDetailsData(tasks[i].fqbn[1]).programmers
            /\ tasks[i].storedData[1].selectedProgrammer =
                 DefaultProgrammerOf(BoardDetailsData(tasks[i].fqbn[1]))
       /\ tasks[i].pc = "h.write" =>
            /\ tasks[i].data[1].programmers =
                 BoardDetailsData(tasks[i].fqbn[1]).programmers
            /\ tasks[i].data[1].selectedProgrammer =
                 DefaultProgrammerOf(BoardDetailsData(tasks[i].fqbn[1]))
  /\ \A details \in DetailsValues :
       createDataStoreEntry(details).selectedProgrammer = DefaultProgrammerOf(details)
\* a:b:c is stored with a programmer that was selected, not the default one, and
\* x:y:z, which has no default programmer, with none
C26_Witness ==
  /\ storage["a:b:c"] # None
  /\ storage["a:b:c"][1].selectedProgrammer = Some(p2)
  /\ storage["a:b:c"][1].defaultProgrammerId = Some("p1")
  /\ storage["x:y:z"] # None
  /\ storage["x:y:z"][1].programmers = <<p2>>
  /\ storage["x:y:z"][1].selectedProgrammer = None
----------------------------------------------------------------------------
(* The listener of the data store's event, under Spec.  fired is the event *)
(* of the data store that was delivered in the last step.                  *)

\* the refreshState invocations started in this step
Started == {i \in 1..MaxRefreshes : Idle(i) /\ refreshes'[i].pc # "idle"}

\* C27: when the data store fires an event, disabledMessage stays as it is in
\* that step; if no change of the event has the fqbn of the selected board
\* (none is selected, or it has no fqbn, or another one) no refreshState is
\* started, and otherwise exactly one is, for the current sketch and the
\* selected board, and the invocations in flight are left alone.
C27_RefreshOnlyForSelectedBoard ==
  [][fired' # None =>
       LET changed == {fired'[1][k].fqbn : k \in 1..Len(fired'[1])} IN
       /\ disabledMessage' = disabledMessage
       /\ tooltip' = tooltip
       /\ IF selectedBoard # None /\ selectedBoard[1].fqbn # None
             /\ selectedBoard[1].fqbn[1] \in changed
          THEN /\ Cardinality(Started) = 1
               /\ \A i \in 1..MaxRefreshes :
                    IF i \in Started
                    THEN refreshes'[i] =
                           Live(isDebugEnabled_enter(currentSketch, selectedBoard))
                    ELSE refreshes'[i] = refreshes[i]
          ELSE refreshes' = refreshes]_vars
\* an event with a change of x:y:z only was delivered while a:b:c is selected
\* and debugging enabled, and no refreshState is in flight
C27_Witness ==
  /\ fired = Some(<<ChangeOf("x:y:z")>>)
  /\ selectedBoard = Some([name |-> "ABC", fqbn |-> Some("a:b:c")])
  /\ lifecycle = "ready"
  /\ disabledMessage = None
  /\ \A i \in 1..MaxRefreshes : Idle(i)

\* the invocation of startDebug had no board, a board without fqbn, or no
\* valid sketch
NothingToDebug(s) ==
  \/ s.board = None
  \/ Falsy(s.board[1].fqbn)
  \/ ~CurrentSketch_isValid(s.sketch)

\* the error mentions a missing programmer, the answer was yes and the
\* command yielded a programmer
MayStartAgain(err, answer, selected) ==
  /\ err.isError
  /\ err.message \in {"Missing programmer"}
  /\ answer = Some("Yes")
  /\ selected \in {Some(p1), Some(p2)}

\* C28: startDebug returns false, and has not executed 'arduino.debug.start',
\* when no board is selected, the board has no fqbn or the sketch is not valid;
\* it is invoked again only after an error that mentions a missing programmer,
\* the answer yes and a programmer from the select-programmer command; every
\* other invocation that caught an error returns false.
C28_StartDebugFailsClosed ==
  /\ (starts.pc = "done" /\ NothingToDebug(starts))
       => (starts.result = Some(FALSE) /\ ~starts.executed)
  /\ starts.attempts > 1
       => /\ starts.retriedOn # None
          /\ MayStartAgain(starts.retriedOn[1].err, starts.retriedOn[1].answer,
                           starts.retriedOn[1].selected)
  /\ (starts.pc = "done" /\ starts.err # None) => starts.result = Some(FALSE)
  /\ starts.executions <= starts.attempts
  /\ starts.executed => (starts.params # None /\ ~NothingToDebug(starts))

\* an invocation started again after a missing programmer has ended
C28_Witness ==
  /\ starts.pc = "done"
  /\ starts.attempts = 2
  /\ starts.retriedOn # None
  /\ starts.err # None
  /\ starts.result = Some(FALSE)

====
